---- MODULE Spec2Model ----
(***************************************************************************)
(* Per-device runtime of streamduck: the core (SDCore, KeyHandler), the    *)
(* device thread (input translation, command processing, redraw, animated  *)
(* step) and the animation counters.                                       *)
(*                                                                         *)
(* Abstractions: images are symbolic records; the 64-bit DefaultHasher     *)
(* value is modelled by the hashed content itself (no collisions); f32     *)
(* seconds are natural numbers of clock units.                             *)
(***************************************************************************)
EXTENDS Integers, Sequences, FiniteSets, TLC

\* ------------------------------------------------------------------ bounds
MaxStack == 2      \* screens pushed on top of each other
MaxQueue == 2      \* command batches waiting in the command channel
MaxKeyQueue == 2   \* edges waiting in the key channel
MaxTime == 10      \* clock units the animation runs for
MaxFrames == 3     \* frames of an animated asset
TickMax == 1       \* longest loop iteration, in clock units
MaxEvents == 2     \* device updates returned by one read of the daemon
MaxWords == 3      \* words in the message of a driver error

\* -------------------------------------------------------- device geometry
Keys == {0, 1}                                   \* 0..key_count-1
key_count == Cardinality(Keys)
Bytes == {0, 1, 2}                               \* u8 values: up, and two ways of down

\* ------------------------------------------------------------------ images
Img(kind, payload) == [kind |-> kind, payload |-> payload, text |-> <<>>]
NoImg == Img("none", "")
missing == Img("missing", "")                    \* the "where" placeholder
Black == Img("solid", "black")

image_from_solid(color) == Img("solid", color)
resize_to_fill(name) == Img("resized", name)
FrameImage(name) == Img("frame", name)

\* AnimationFrame { image, index, delay }
AnimationFrame(name, index, delay) == [image |-> FrameImage(name), index |-> index, delay |-> delay]

\* SDImage::SingleImage / SDImage::AnimatedImage
SingleImage(name) == [kind |-> "single", image |-> name, frames |-> <<>>]
AnimatedImage(frames) == [kind |-> "animated", image |-> "", frames |-> frames]

\* ------------------------------------------------------ renderer component
Solid(color) == <<"Solid", color>>
ExistingImage(id) == <<"ExistingImage", id>>
NewImage(blob) == <<"NewImage", blob>>

RendererComponent(bg, text, tc) == [background |-> bg, text |-> text, to_cache |-> tc]

ButtonText(text, font) == [text |-> text, font |-> font]

\* RendererComponent::default()
DefaultRenderer == RendererComponent(Solid("white"), <<>>, TRUE)

\* A button is a bag of components; only the renderer component matters here.
ButtonWith(comp) == [renderer |-> <<comp>>]
ButtonPlain == [renderer |-> <<>>]

\* parse_unique_button_to_component::<RendererComponent>: Ok(component) or Err
parse_renderer(button) == button.renderer

\* fonts known to get_font_from_collection
Fonts == {"default"}
\* blobs that base64-decode and decode as an image
ValidBlobs == {"png"}

\* ----------------------------------------------------- inputs of the model
AssetIds == {"pic", "anim"}

BtnRed == ButtonWith(RendererComponent(Solid("red"), <<>>, TRUE))
BtnText == ButtonWith(RendererComponent(Solid("red"), <<ButtonText("hi", "default")>>, TRUE))
BtnPic == ButtonWith(RendererComponent(ExistingImage("pic"), <<>>, TRUE))
BtnBlob == ButtonWith(RendererComponent(NewImage("bad"), <<>>, TRUE))
BtnNoCache == ButtonWith(RendererComponent(Solid("red"), <<>>, FALSE))
BtnAnim == ButtonWith(RendererComponent(ExistingImage("anim"), <<>>, TRUE))
BtnAnimNoCache == ButtonWith(RendererComponent(ExistingImage("anim"), <<>>, FALSE))

EmptyScreen == [k \in {} |-> ButtonPlain]
ScreenStatic == (0 :> BtnRed) @@ (1 :> BtnPic)
ScreenMixed == (0 :> BtnNoCache) @@ (1 :> ButtonPlain)
ScreenSame == (0 :> BtnRed) @@ (1 :> BtnRed)
ScreenAnim == (0 :> BtnAnim)
ScreenAnimTwins == (0 :> BtnAnim) @@ (1 :> BtnAnim)
ScreenAnimNoCache == (0 :> BtnAnimNoCache) @@ (1 :> BtnAnim)
ScreenTwins == (0 :> BtnRed) @@ (1 :> BtnNoCache)
ScreenAnimMix == (0 :> BtnAnim) @@ (1 :> BtnPic)

\* a screen holding a button at an index the device has no key for
ScreenWide == (0 :> BtnRed) @@ (key_count :> BtnPic)

Screens == {EmptyScreen, ScreenStatic, ScreenMixed}

\* ---------------------------------------------------------------- commands
Cmd(c, key, img) == [cmd |-> c, key |-> key, img |-> img]
Redraw == Cmd("Redraw", 0, NoImg)
SetBrightness(b) == Cmd("SetBrightness", b, NoImg)
SetButtonImage(key, img) == Cmd("SetButtonImage", key, img)
SetButtonImageRaw(key, img) == Cmd("SetButtonImageRaw", key, img)
ClearButtonImage(key) == Cmd("ClearButtonImage", key, NoImg)

Batches == { <<Redraw>>,
             <<SetBrightness(10), SetBrightness(20)>>,
             <<ClearButtonImage(0), Redraw>>,
             <<SetButtonImage(1, Img("solid", "blue")), SetButtonImageRaw(0, [image |-> Img("solid", "green"), via |-> "raw"])>> }

\* device operations issued through the StreamDeck handle
DevOp(op, key, img, src) == [op |-> op, key |-> key, img |-> img, src |-> src]

\* ------------------------------------------------------------------- state
VARIABLES
    current_stack,      \* SDCore.current_stack: Vec<ButtonPanel>
    should_close,       \* SDCore.should_close
    image_collection,   \* asset store: id -> SDImage
    cmd_chan,           \* command channel: batches in flight
    rx_alive,           \* the device thread still owns the command receiver
    key_chan,           \* key channel: (key, is_down) edges in flight
    key_tx_alive,       \* the device thread still owns the key sender
    key_rx_alive,       \* the KeyHandler (and its receiver) still exists
    dev_pc,             \* position of the device thread in its loop
    last_buttons,       \* Vec<u8> of the previous report
    renderer_cache,     \* hash -> decoded image
    animation_cache,    \* hash -> encoded device image
    renderer_map,       \* key -> (button, component)
    animation_counters, \* asset id -> AnimationCounter
    current_images,     \* RendererState.current_images
    kh_pc,              \* position of KeyHandler::run_loop
    now,                \* the monotonic clock
    \* observation of what the steps did
    dev_ops,            \* device operations issued by the latest device thread step
    exec_last,          \* commands executed by the latest command step, in order
    kh_last,            \* calls made by the latest key handler step
    last_redraw,        \* what the latest Redraw did
    dirty,              \* stack, buttons or assets changed since the latest Redraw
    hid_state,          \* "no", or an Hid error was read in "this" iteration or an "earlier" one
    anim_log,           \* per key, the frame indices of the two latest animated writes
    encode_count,       \* per animated hash, how often the animated step encoded it (capped)
    last_read,          \* result of read_buttons in the running iteration
    last_report,        \* the report that read returned and how many keys had a value before it
    write_failed,       \* keys whose latest device write or clear returned an error
    op_result,          \* what the latest screen stack operation reported to its caller
    handles,            \* SDCore.handles: "none" until SDCore::new has stored the thread handles
    \* the daemon around the runtime
    devices,            \* serial numbers the core manager knows a connected device for
    clipboard,          \* DaemonListener.clipboard: no button, or the copied button
    last_request,       \* the latest socket request, the core calls and the packets it caused
    last_poll           \* the latest poll_device: what was read, the result, the payloads sent

vars == << current_stack, should_close, image_collection, cmd_chan, rx_alive,
           key_chan, key_tx_alive, key_rx_alive, dev_pc, last_buttons,
           renderer_cache, animation_cache, renderer_map, animation_counters,
           current_images, kh_pc, now, dev_ops, exec_last, kh_last,
           last_redraw, dirty, hid_state, anim_log, encode_count, last_read,
           last_report, write_failed, op_result, handles, devices, clipboard, last_request,
           last_poll >>

coreVars == << current_stack, should_close, image_collection >>
chanVars == << cmd_chan, rx_alive, key_chan, key_tx_alive, key_rx_alive >>
devVars == << dev_pc, last_buttons, renderer_cache, animation_cache, renderer_map,
              animation_counters, current_images >>
histVars == << encode_count, last_read, last_report, write_failed >>
\* state no step of the device thread or of the key handler touches
daemonVars == << devices, clipboard, last_request, last_poll >>
extVars == << op_result, handles, daemonVars >>
obsVars == << dev_ops, exec_last, kh_last, last_redraw, dirty, hid_state, anim_log, histVars >>

EmptyMap == [k \in {} |-> 0]

\* the latest stack operation: its name, what it reported and, for a pop, the
\* stack it found
StackResult(op, before, result) ==
    [op |-> op, before |-> IF op = "pop" THEN before ELSE <<>>, result |-> result]
NoOp == StackResult("none", <<>>, "none")

\* ------------------------------------------------------- daemon: device input
\* DeviceStateUpdate of the driver
Update(kind, input, amount, from, to) ==
    [kind |-> kind, input |-> input, amount |-> amount, from |-> from, to |-> to]
ButtonDown(b) == Update("ButtonDown", b, 0, <<0, 0>>, <<0, 0>>)
ButtonUp(b) == Update("ButtonUp", b, 0, <<0, 0>>, <<0, 0>>)
EncoderDown(e) == Update("EncoderDown", e, 0, <<0, 0>>, <<0, 0>>)
EncoderUp(e) == Update("EncoderUp", e, 0, <<0, 0>>, <<0, 0>>)
EncoderTwist(e, d) == Update("EncoderTwist", e, d, <<0, 0>>, <<0, 0>>)
TouchScreenPress(x, y) == Update("TouchScreenPress", 0, 0, <<x, y>>, <<x, y>>)
TouchScreenLongPress(x, y) == Update("TouchScreenLongPress", 0, 0, <<x, y>>, <<x, y>>)
TouchScreenSwipe(s, e) == Update("TouchScreenSwipe", 0, 0, s, e)

\* InputEvent; time_held is kept in tenths of a second (0.2 is 2, 1.1 is 11)
InputEvent(event, amount, from, to, held) ==
    [event |-> event, amount |-> amount, from |-> from, to |-> to, time_held |-> held]
ButtonPressed == InputEvent("ButtonPressed", 0, <<0, 0>>, <<0, 0>>, 0)
ButtonReleased == InputEvent("ButtonReleased", 0, <<0, 0>>, <<0, 0>>, 0)
EndlessKnob(d) == InputEvent("EndlessKnob", d, <<0, 0>>, <<0, 0>>, 0)
XYPanelPress(position) == InputEvent("XYPanelPress", 0, position, position, 0)
XYPanelRelease(position, held) == InputEvent("XYPanelRelease", 0, position, position, held)
XYPanelSwipe(start, end) == InputEvent("XYPanelSwipe", 0, start, end, 0)

InputPayload(input, event) == [input |-> input, event |-> event]

\* the input id of the touch strip
TouchInput == 8
\* "time_held: 0.2" and "time_held: 1.1", in tenths of a second
PressHeld == 2
LongPressHeld == 11

\* an encoder mapping that forgets the offset past the buttons
EncoderInput_unshifted(e) == e

\* "input: input as u16 + 9"
EncoderInput(e) == (e + 9) % 65536

\* a touch that reports the release before the press
TouchPair_reversed(position, held) ==
    << InputPayload(TouchInput, XYPanelRelease(position, held)),
       InputPayload(TouchInput, XYPanelPress(position)) >>

\* the two payloads of TouchScreenPress and TouchScreenLongPress
TouchPair(position, held) ==
    << InputPayload(TouchInput, XYPanelPress(position)),
       InputPayload(TouchInput, XYPanelRelease(position, held)) >>

map_update(update) ==
    CASE update.kind = "ButtonDown" -> << InputPayload(update.input, ButtonPressed) >>
      [] update.kind = "ButtonUp" -> << InputPayload(update.input, ButtonReleased) >>
      [] update.kind = "EncoderDown" -> << InputPayload(EncoderInput(update.input), ButtonPressed) >>
      [] update.kind = "EncoderUp" -> << InputPayload(EncoderInput(update.input), ButtonReleased) >>
      [] update.kind = "EncoderTwist" ->
            << InputPayload(EncoderInput(update.input), EndlessKnob(update.amount)) >>
      [] update.kind = "TouchScreenPress" -> TouchPair(update.from, PressHeld)
      [] update.kind = "TouchScreenLongPress" -> TouchPair(update.from, LongPressHeld)
      [] update.kind = "TouchScreenSwipe" ->
            << InputPayload(TouchInput, XYPanelSwipe(update.from, update.to)) >>

\* Kind of the driver crate, as far as the layouts read it
Kind(rows, columns, encoders) ==
    [row_count |-> rows, column_count |-> columns, encoder_count |-> encoders]
\* Kind::Plus: two rows of four keys and four encoders
KindPlus == Kind(2, 4, 4)

\* one slot of an InputLayout
Input(x, y, w, h, ty) == [x |-> x, y |-> y, w |-> w, h |-> h, ty |-> ty]

\* buttons_only: a Button slot per key, row by row
buttons_only(kind) ==
    [i \in 1..(kind.row_count * kind.column_count) |->
        Input((i - 1) % kind.column_count, (i - 1) \div kind.column_count, 1, 1, "Button")]

\* the encoders of a kind, one EndlessKnob slot each
Knobs(kind) == [i \in 1..kind.encoder_count |-> Input(i - 1, 4, 1, 1, "EndlessKnob")]

\* a layout that lists the encoders before the LCD strip
plus_knobs_first ==
    LET kind == KindPlus
    IN  buttons_only(kind) \o Knobs(kind) \o << Input(0, 3, 4, 1, "XYPanel") >>

\* plus(): the buttons, then the LCD strip, then the encoders
plus ==
    LET kind == KindPlus
    IN  buttons_only(kind) \o << Input(0, 3, 4, 1, "XYPanel") >> \o Knobs(kind)

\* StreamDeckError: the variant, the HidError variant inside it, the message
\* of an HidApiError as a sequence of words
StreamDeckError(variant, hid, message) == [variant |-> variant, hid |-> hid, message |-> message]
NoError == StreamDeckError("", "", <<>>)
Disconnected == << "device", "disconnected" >>

\* a test for the message being the pattern and nothing else
MessageMatches_exact(message, pattern) == message = pattern

\* message.contains(pattern): the pattern starts at some position of the message
MessageMatches(message, pattern) ==
    \E start \in 0..(Len(message) - Len(pattern)) :
        SubSeq(message, start + 1, start + Len(pattern)) = pattern

\* DeviceError::LostConnection, DeviceError::DeviceError(Box::new(err)), or Ok
PollResult(kind, err) == [kind |-> kind, err |-> err]

map_error(err) ==
    IF /\ err.variant = "HidError"
       /\ err.hid = "HidApiError"
       /\ MessageMatches(err.message, Disconnected)
    THEN PollResult("LostConnection", NoError)
    ELSE PollResult("DeviceError", err)

\* the payloads of all events of one read, in order
RECURSIVE PayloadsOf(_)
PayloadsOf(events) ==
    IF events = <<>> THEN <<>> ELSE map_update(Head(events)) \o PayloadsOf(Tail(events))

Poll(events, err, result, sent) == [events |-> events, err |-> err, result |-> result, sent |-> sent]
NoPoll == Poll(<<>>, NoError, PollResult("none", NoError), <<>>)

\* poll_device when reader.read returned Ok(events)
poll_ok(events) == Poll(events, NoError, PollResult("Ok", NoError), PayloadsOf(events))
\* poll_device when reader.read returned Err(err): "map_err(map_error)?"
poll_err(err) == Poll(<<>>, err, map_error(err), <<>>)

\* ------------------------------------------------------ daemon: socket requests
\* what one run of a request handler did: the request it was given, the core
\* methods it called and the packets it passed to send_packet, in order
Request(kind, parsed, serial, key, calls, responses) ==
    [kind |-> kind, parsed |-> parsed, serial |-> serial, key |-> key,
     calls |-> calls, responses |-> responses]
NoRequest == Request("none", FALSE, "", 0, <<>>, <<>>)

\* the core method each handler calls once the device is found
CoreCall ==
    [get_button |-> "get_button", set_button |-> "set_button",
     clear_button |-> "clear_button", new_button |-> "set_button",
     new_button_from_component |-> "set_button", add_component |-> "add_component",
     get_component_values |-> "get_component_values_with_paths",
     add_component_value |-> "add_element_component_value",
     remove_component_value |-> "remove_element_component_value",
     set_component_value |-> "set_component_value_by_path",
     remove_component |-> "remove_component", copy_button |-> "get_button",
     paste_button |-> "paste_button"]
\* the result variant sent when the core method succeeds
Success ==
    [get_button |-> "Button", set_button |-> "Set", clear_button |-> "Cleared",
     new_button |-> "Created", new_button_from_component |-> "Created",
     add_component |-> "Added", get_component_values |-> "Values",
     add_component_value |-> "Added", remove_component_value |-> "Removed",
     set_component_value |-> "Set", remove_component |-> "Removed",
     copy_button |-> "Copied", paste_button |-> "Pasted"]
\* the result variant sent when the core method fails
Failure ==
    [get_button |-> "NoButton", set_button |-> "NoScreen",
     clear_button |-> "FailedToClear", new_button |-> "FailedToCreate",
     new_button_from_component |-> "FailedToCreate", add_component |-> "FailedToAdd",
     get_component_values |-> "FailedToGet", add_component_value |-> "FailedToAdd",
     remove_component_value |-> "FailedToRemove", set_component_value |-> "FailedToSet",
     remove_component |-> "FailedToRemove", copy_button |-> "NoButton",
     paste_button |-> "FailedToPaste"]
RequestKinds == DOMAIN CoreCall

Handled(calls, responses) == [calls |-> calls, responses |-> responses]

\* core_manager.get_device(&request.serial_number): the registry of connected devices
get_device(registry, serial) == serial \in registry

\* the handlers without their early returns
process_fallthrough(kind, parsed, device, component, full, core_ok) ==
    IF ~parsed THEN Handled(<<>>, <<>>)
    ELSE IF ~device THEN Handled(<<>>, <<"DeviceNotFound">>)
    ELSE CASE kind = "new_button_from_component" ->
                IF component
                THEN Handled(<<"set_button">>,
                             <<IF core_ok THEN "Created" ELSE "FailedToCreate",
                               "ComponentNotFound">>)
                ELSE Handled(<<>>, <<"ComponentNotFound">>)
           [] kind = "paste_button" ->
                IF full /\ core_ok
                THEN Handled(<<"paste_button">>, <<"Pasted", "FailedToPaste">>)
                ELSE Handled(IF full THEN <<"paste_button">> ELSE <<>>, <<"FailedToPaste">>)
           [] OTHER ->
                Handled(<<CoreCall[kind]>>,
                        <<IF core_ok THEN Success[kind] ELSE Failure[kind]>>)
\* DaemonRequest::process of the button and component requests: parsed is the
\* outcome of parse_packet_to_data, device of get_device, component of the
\* component map lookup, full of clipboard.is_some(), core_ok of the core method
process(kind, parsed, device, component, full, core_ok) ==
    IF ~parsed THEN Handled(<<>>, <<>>)
    ELSE IF ~device THEN Handled(<<>>, <<"DeviceNotFound">>)
    ELSE CASE kind = "new_button_from_component" ->
                IF component
                THEN Handled(<<"set_button">>,
                             <<IF core_ok THEN "Created" ELSE "FailedToCreate">>)
                ELSE Handled(<<>>, <<"ComponentNotFound">>)
           [] kind = "paste_button" ->
                IF full /\ core_ok
                THEN Handled(<<"paste_button">>, <<"Pasted">>)
                ELSE Handled(IF full THEN <<"paste_button">> ELSE <<>>, <<"FailedToPaste">>)
           [] OTHER ->
                Handled(<<CoreCall[kind]>>,
                        <<IF core_ok THEN Success[kind] ELSE Failure[kind]>>)

\* the button a copy request found at a key of a device
CopiedButton(serial, key) == [serial |-> serial, key |-> key]
\* a copy that empties the clipboard when it finds no button
ClipboardAfter_cleared_on_miss(board, kind, serial, key, handled) ==
    IF kind = "copy_button" /\ handled.responses = <<"Copied">>
    THEN <<CopiedButton(serial, key)>>
    ELSE IF kind = "copy_button" /\ handled.responses = <<"NoButton">> THEN <<>> ELSE board

\* CopyButton::process: "*lock = Some(button...clone())" when a button was found
ClipboardAfter(board, kind, serial, key, handled) ==
    IF kind = "copy_button" /\ handled.responses = <<"Copied">>
    THEN <<CopiedButton(serial, key)>>
    ELSE board

\* ClipboardStatusResult::process: Full or Empty, and nothing for a packet
\* that is not a clipboard_status request
clipboard_status(parsed, full) ==
    IF ~parsed THEN Handled(<<>>, <<>>)
    ELSE Handled(<<>>, << IF full THEN "Full" ELSE "Empty" >>)

\* a report read_buttons returned: known is last_buttons.len() before the read
Report(known, buttons) == [known |-> known, buttons |-> buttons]
NoReport == Report(0, <<>>)

NoRedraw == [seen |-> FALSE, repeat |-> FALSE, found |-> FALSE, static |-> FALSE,
             composed |-> {}, written |-> {}, cleared |-> {}, ops |-> <<>>, retried |-> {},
             lock |-> <<>>]

\* =========================================================== pure functions
\* encoded images handed to write_button_image
DeviceImage(img, via) == [image |-> img, via |-> via]
\* convert_image(kind, image): decoded image to the device's wire format
convert_image(img) == DeviceImage(img, "convert")
\* image.write_to(buffer, format) of SetButtonImage
encode_image(img) == DeviceImage(img, "encode")
\* draw_foreground(..).rotate180().write_to(..) of the animated step
rotate_encode(img) == DeviceImage(img, "rotate180")

\* get_image inside draw_background: base64 decode, guess format, decode
get_image(blob) == IF blob \in ValidBlobs THEN <<blob>> ELSE <<>>

IsAnimatedAsset(assets, id) == id \in DOMAIN assets /\ assets[id].kind = "animated"

\* "if let ExistingImage(identifier) = background { if let Some(AnimatedImage) = collection.get(identifier)"
IsAnimatedBg(component, assets) ==
    /\ component.background[1] = "ExistingImage"
    /\ IsAnimatedAsset(assets, component.background[2])

\* counter.get_frame()
get_frame(counter) == counter.frames[counter.index + 1].frame

draw_background(renderer, assets, counters) ==
    LET tag == renderer.background[1]
        arg == renderer.background[2]
    IN  CASE tag = "Solid" -> image_from_solid(arg)
          [] tag = "HorizontalGradient" -> Img("hgradient", arg)
          [] tag = "VerticalGradient" -> Img("vgradient", arg)
          [] tag = "ExistingImage" ->
                IF arg \in DOMAIN assets
                THEN IF assets[arg].kind = "single"
                     THEN resize_to_fill(assets[arg].image)
                     ELSE IF arg \in DOMAIN counters
                          THEN get_frame(counters[arg]).image
                          ELSE Img("transparent", "")
                ELSE missing
          [] tag = "NewImage" ->
                IF get_image(arg) # <<>> THEN resize_to_fill(get_image(arg)[1]) ELSE missing

\* texts whose font is found are drawn in order, the others silently skipped
RECURSIVE RenderTexts(_, _)
RenderTexts(texts, img) ==
    IF texts = <<>> THEN img
    ELSE LET t == Head(texts)
             drawn == IF t.font \in Fonts THEN [img EXCEPT !.text = Append(@, t.text)] ELSE img
         IN  RenderTexts(Tail(texts), drawn)

\* no rendering module is registered in the model: the module loop adds nothing
draw_foreground(renderer, button, background) == RenderTexts(renderer.text, background)

\* derive(Hash) on RendererComponent hashes background, text and to_cache
hash_renderer(renderer) == <<renderer.background, renderer.text, renderer.to_cache>>

\* key of the decoded cache: hash_renderer plus the modules' render_hash (none registered)
StaticHash(component, button) == <<"static", hash_renderer(component)>>

\* key of the encoded cache: the component, the frame index, the modules' render_hash
AnimatedHash(component, index, button) == <<"animated", hash_renderer(component), index>>

\* get_current_screen: the top of the stack, or none
get_current_screen(stack) == IF stack = <<>> THEN <<>> ELSE <<stack[Len(stack)]>>

MapPut(m, k, v) == (k :> v) @@ m
MapRemove(m, k) == [x \in (DOMAIN m) \ {k} |-> m[x]]

\* ------------------------------------------------------------------ redraw
\* a cache hit that shows nothing on the device
RedrawHitOps_silent(i, image) == <<>>

\* the device operation a cache hit of Redraw issues
RedrawHitOps(i, image) == << DevOp("write", i, convert_image(image), "redraw") >>

\* a miss that forgets to store the image it composed
CacheAfterMiss_skipped(cache, hash, image) == cache

\* "cache.insert(hash, image.clone())" after composing on a miss
CacheAfterMiss(cache, hash, image) == MapPut(cache, hash, image)

\* a redraw that keeps the entry of a key that lost its renderer
RenderMapWithout_kept(rmap, i) == rmap

\* "renderer_map.remove(&i)"
RenderMapWithout(rmap, i) == MapRemove(rmap, i)

\* a lookup that never finds an entry
CacheLookup_blind(cache, hash) == <<>>

\* "cache.get(&hash)": the entry stored under the hash, if any
CacheLookup(cache, hash) == IF hash \in DOMAIN cache THEN << cache[hash] >> ELSE <<>>

\* one pass of the loop "for i in 0..key_count" body
RedrawKey(i, screen, assets, counters, st) ==
    IF i \in DOMAIN screen
    THEN LET button == screen[i]
             parsed == parse_renderer(button)
         IN  IF parsed # <<>>
             THEN LET component == parsed[1]
                      st1 == [st EXCEPT !.rmap = MapPut(@, i, [button |-> button, component |-> component])]
                  IN  IF IsAnimatedBg(component, assets)
                      THEN [st1 EXCEPT !.imgs = MapPut(@, i, assets[component.background[2]].frames[1].image)]
                      ELSE LET hash == StaticHash(component, button)
                               found == CacheLookup(st1.cache, hash)
                           IN  IF found # <<>>
                               THEN [st1 EXCEPT !.imgs = MapPut(@, i, found[1]),
                                                !.ops = @ \o RedrawHitOps(i, found[1]),
                                                !.written = @ \cup {i}]
                               ELSE LET image == draw_foreground(component, button,
                                                    draw_background(component, assets, counters))
                                    IN  [st1 EXCEPT !.cache = CacheAfterMiss(@, hash, image),
                                                    !.imgs = MapPut(@, i, image),
                                                    !.ops = Append(@, DevOp("write", i, convert_image(image), "redraw")),
                                                    !.composed = @ \cup {i},
                                                    !.written = @ \cup {i}]
             ELSE [st EXCEPT !.rmap = RenderMapWithout(@, i),
                             !.imgs = MapPut(@, i, image_from_solid("black")),
                             !.ops = Append(@, DevOp("clear", i, NoImg, "redraw")),
                             !.cleared = @ \cup {i}]
    ELSE [st EXCEPT !.rmap = RenderMapWithout(@, i),
                    !.ops = Append(@, DevOp("clear", i, NoImg, "redraw")),
                    !.cleared = @ \cup {i}]

\* a loop that visits every index the screen has a button for
LoopEnd_of_screen(screen) ==
    IF DOMAIN screen = {} THEN 0
    ELSE 1 + CHOOSE k \in DOMAIN screen : \A j \in DOMAIN screen : j <= k

\* "for i in 0..core.core.key_count": the first index the loop does not visit
LoopEnd(screen) == key_count

RECURSIVE RedrawFrom(_, _, _, _, _)
RedrawFrom(i, screen, assets, counters, st) ==
    IF i >= LoopEnd(screen) THEN st
    ELSE RedrawFrom(i + 1, screen, assets, counters, RedrawKey(i, screen, assets, counters, st))

\* every key of the screen has a renderer with to_cache and a non-animated background
AllStaticCached(screen, assets) ==
    \A k \in Keys : /\ k \in DOMAIN screen
                    /\ parse_renderer(screen[k]) # <<>>
                    /\ parse_renderer(screen[k])[1].to_cache
                    /\ ~IsAnimatedBg(parse_renderer(screen[k])[1], assets)

\* a redraw that looks at the oldest screen of the stack
ScreenRead_oldest(stack) == IF stack = <<>> THEN <<>> ELSE << stack[1] >>

\* "let current_screen = get_current_screen(&core)" and the clone of its buttons
ScreenRead(stack) == get_current_screen(stack)

\* what the loop of redraw() does, in order: a composition before the write of
\* every key it composed, and the device operations
RECURSIVE LoopEvents(_, _)
LoopEvents(ops, composed) ==
    IF ops = <<>> THEN <<>>
    ELSE (IF Head(ops).op = "write" /\ Head(ops).key \in composed
          THEN <<"compose", "write">> ELSE << Head(ops).op >>)
         \o LoopEvents(Tail(ops), composed)

\* a redraw that keeps the screen's read guard until it returns
ScreenGuard_until_return(events) == <<"lock", "clone">> \o events \o <<"unlock">>

\* "screen_handle = current_screen.read()", "screen_handle.buttons.clone()",
\* "drop(screen_handle)", then the loop over the keys
ScreenGuard(events) == <<"lock", "clone", "unlock">> \o events

\* redraw(): ds is the device thread's state during a command batch
redraw(stack, assets, ds) ==
    LET current == ScreenRead(stack)
    IN  IF current = <<>>
        THEN [ds EXCEPT !.lr = [NoRedraw EXCEPT !.seen = TRUE, !.repeat = ~ds.dirty],
                        !.dirty = FALSE]
        ELSE LET st0 == [cache |-> ds.cache, rmap |-> ds.rmap, imgs |-> EmptyMap, ops |-> <<>>,
                         composed |-> {}, written |-> {}, cleared |-> {}]
                 st == RedrawFrom(0, current[1], assets, ds.counters, st0)
             IN  [ds EXCEPT !.cache = st.cache,
                            !.rmap = st.rmap,
                            !.images = st.imgs,
                            !.ops = @ \o st.ops,
                            !.lr = [seen |-> TRUE, repeat |-> ~ds.dirty, found |-> TRUE,
                                    static |-> AllStaticCached(current[1], assets),
                                    composed |-> st.composed, written |-> st.written,
                                    cleared |-> st.cleared, ops |-> st.ops,
                                    retried |-> ds.failed \cap (st.written \cup st.cleared),
                                    lock |-> ScreenGuard(LoopEvents(st.ops, st.composed))],
                            !.dirty = FALSE]

\* -------------------------------------------------------- command processing
\* a handler that sends the brightness update twice
BrightnessOps_twice(b) == << DevOp("brightness", b, NoImg, "command"), DevOp("brightness", b, NoImg, "command") >>

\* "streamdeck.set_brightness(brightness).ok()"
BrightnessOps(b) == << DevOp("brightness", b, NoImg, "command") >>

\* the body of "match com" for one command
ExecCommand(com, stack, assets, ds) ==
    LET d == [ds EXCEPT !.exec = Append(@, com)]
    IN  CASE com.cmd = "Redraw" -> redraw(stack, assets, d)
          [] com.cmd = "SetBrightness" ->
                [d EXCEPT !.ops = @ \o BrightnessOps(com.key)]
          [] com.cmd = "SetButtonImage" ->
                [d EXCEPT !.ops = Append(@, DevOp("write", com.key, encode_image(com.img), "command"))]
          [] com.cmd = "SetButtonImageRaw" ->
                [d EXCEPT !.ops = Append(@, DevOp("write", com.key, com.img, "command"))]
          [] com.cmd = "ClearButtonImage" ->
                [d EXCEPT !.ops = Append(@, DevOp("clear", com.key, NoImg, "command"))]

RECURSIVE Reverse(_)
Reverse(q) == IF q = <<>> THEN <<>> ELSE Append(Reverse(Tail(q)), Head(q))

\* a loop that walks the batch from its last command to its first
BatchOrder_reversed(batch) == Reverse(batch)

\* the order in which "for com in com" visits the batch
BatchOrder(batch) == batch

RECURSIVE ExecBatch(_, _, _, _)
ExecBatch(batch, stack, assets, ds) ==
    IF batch = <<>> THEN ds
    ELSE ExecBatch(Tail(batch), stack, assets, ExecCommand(Head(batch), stack, assets, ds))

\* "for com in com": the whole batch, in vector order
ProcessBatch(batch, stack, assets, ds) == ExecBatch(BatchOrder(batch), stack, assets, ds)

\* rx.try_recv(): the batch received and the rest of the channel
TryRecv(chan) == [got |-> <<Head(chan)>>, rest |-> Tail(chan)]

\* ---------------------------------------------------------- input translator
\* a translator that only reports keys it has seen before
EdgeOf_known_only(has_last, last_value, value) ==
    IF has_last
    THEN IF last_value # value THEN << last_value = 0 >> ELSE <<>>
    ELSE <<>>

\* the edge one key contributes: <<>> or <<is_down>>
\*   has_last: last_buttons.get(key) is Some(last_value)
EdgeOf(has_last, last_value, value) ==
    IF has_last
    THEN IF last_value # value THEN << last_value = 0 >> ELSE <<>>
    ELSE IF value > 0 THEN << TRUE >> ELSE <<>>

\* a loop that walks the report from its last key to its first
ReportOrder_descending(buttons) == [i \in 1..Len(buttons) |-> Len(buttons) + 1 - i]

\* buttons.iter().enumerate(): positions of the report in visiting order
ReportOrder(buttons) == [i \in 1..Len(buttons) |-> i]

RECURSIVE EdgesOver(_, _, _)
EdgesOver(order, last, buttons) ==
    IF order = <<>> THEN <<>>
    ELSE LET i == Head(order)
             has == i <= Len(last)
             e == EdgeOf(has, IF has THEN last[i] ELSE 0, buttons[i])
         IN  (IF e = <<>> THEN <<>> ELSE << <<i - 1, e[1]>> >>) \o EdgesOver(Tail(order), last, buttons)

\* all (key, is_down) pairs one report sends, in sending order
ReportEdges(last, buttons) == EdgesOver(ReportOrder(buttons), last, buttons)

\* ------------------------------------------------------- animation counters
RECURSIVE CumFrames(_, _)
CumFrames(frames, acc) ==
    IF frames = <<>> THEN <<>>
    ELSE << [frame |-> Head(frames), end_time |-> acc + Head(frames).delay] >>
         \o CumFrames(Tail(frames), acc + Head(frames).delay)

\* AnimationCounter::new(frames), created at clock value t
NewCounter(frames, t) ==
    LET fs == CumFrames(frames, 0)
    IN  [frames |-> fs, time |-> t, wakeup_time |-> 0, index |-> 0,
         duration |-> IF fs = <<>> THEN 0 ELSE fs[Len(fs)].end_time,
         new_frame |-> FALSE]

\* the first position whose end time exceeds looped_time, or 0 if there is none
FirstFrame(frames, looped_time) ==
    LET hits == {i \in 1..Len(frames) : looped_time < frames[i].end_time}
    IN  IF hits = {} THEN 0 ELSE CHOOSE i \in hits : \A j \in hits : i <= j

\* a counter that wakes at the chosen frame's end within the loop
NextWakeup_frame_end(c, t, i) == c.frames[i].end_time

\* the wakeup time set when frame i (1-based) is chosen at elapsed time t
NextWakeup(c, t, i) == t + c.frames[i].frame.delay

\* a counter that compares the time within the loop with its wakeup time
advance_counter_looped(c, t) ==
    IF c.duration > 0 /\ t % c.duration > c.wakeup_time
    THEN LET i == FirstFrame(c.frames, t % c.duration)
         IN  IF i = 0 THEN c
             ELSE [c EXCEPT !.index = i - 1, !.new_frame = TRUE, !.wakeup_time = NextWakeup(c, t, i)]
    ELSE c

\* advance_counter at elapsed time t (float % 0.0 is NaN: no frame matches)
advance_counter(c, t) ==
    IF t > c.wakeup_time /\ c.duration > 0
    THEN LET i == FirstFrame(c.frames, t % c.duration)
         IN  IF i = 0 THEN c
             ELSE [c EXCEPT !.index = i - 1, !.new_frame = TRUE, !.wakeup_time = NextWakeup(c, t, i)]
    ELSE c

\* how often a hash was encoded so far, counted up to EncodeCap
EncodeCap == 2
Encodes(count, hash) == IF hash \in DOMAIN count THEN count[hash] ELSE 0
CountEncode(count, hash) ==
    MapPut(count, hash, IF Encodes(count, hash) < EncodeCap THEN Encodes(count, hash) + 1 ELSE EncodeCap)

\* an animated step that never stores the blob it encoded
AnimCacheAfterMiss_skipped(cache, hash, arc, to_cache) == cache

\* "if component.to_cache { cache.insert(hash, arc.clone()) }"
AnimCacheAfterMiss(cache, hash, arc, to_cache) ==
    IF to_cache THEN MapPut(cache, hash, arc) ELSE cache

\* the body of the first loop of process_animations for one render-map entry
AnimateKey(key, rmap, assets, t, st) ==
    LET button == rmap[key].button
        component == rmap[key].component
        id == component.background[2]
    IN  IF component.background[1] # "ExistingImage" THEN st
        ELSE LET counters == IF id \in DOMAIN st.counters THEN st.counters
                             ELSE IF IsAnimatedAsset(assets, id)
                                  THEN MapPut(st.counters, id, NewCounter(assets[id].frames, t))
                                  ELSE st.counters
                 st1 == [st EXCEPT !.counters = counters]
             IN  IF id \notin DOMAIN counters \/ ~counters[id].new_frame THEN st1
                 ELSE LET frame == get_frame(counters[id])
                          hash == AnimatedHash(component, frame.index, button)
                          log == [st1.log EXCEPT ![key] = << @[2], frame.index >>]
                      IN  IF component.to_cache /\ hash \in DOMAIN st1.cache
                          THEN [st1 EXCEPT !.ops = Append(@, DevOp("write", key, st1.cache[hash], "animation")),
                                           !.log = log]
                          ELSE LET arc == rotate_encode(draw_foreground(component, button, frame.image))
                               IN  [st1 EXCEPT !.cache = AnimCacheAfterMiss(@, hash, arc, component.to_cache),
                                               !.ops = Append(@, DevOp("write", key, arc, "animation")),
                                               !.count = CountEncode(@, hash),
                                               !.log = log]

RECURSIVE AnimateKeys(_, _, _, _, _)
AnimateKeys(order, rmap, assets, t, st) ==
    IF order = <<>> THEN st
    ELSE AnimateKeys(Tail(order), rmap, assets, t, AnimateKey(Head(order), rmap, assets, t, st))

\* a second loop that starts a counter's clock again whenever it shows frame 0
StepCounters_restarting(counters, t) ==
    [id \in DOMAIN counters |->
        LET c == advance_counter([counters[id] EXCEPT !.new_frame = FALSE], t - counters[id].time)
        IN  IF c.new_frame /\ c.index = 0 THEN [c EXCEPT !.time = t] ELSE c]

\* the second loop: clear the flag, then advance, for every counter
StepCounters(counters, t) ==
    [id \in DOMAIN counters |->
        advance_counter([counters[id] EXCEPT !.new_frame = FALSE], t - counters[id].time)]

\* process_animations, visiting the render-map in the given order
process_animations(order, rmap, assets, t, st) ==
    LET st1 == AnimateKeys(order, rmap, assets, t, st)
    IN  [st1 EXCEPT !.counters = StepCounters(st1.counters, t)]

\* the orders a HashMap iteration may visit the keys of m in
RECURSIVE OrdersOf(_)
OrdersOf(S) ==
    IF S = {} THEN { <<>> }
    ELSE UNION { { <<k>> \o o : o \in OrdersOf(S \ {k}) } : k \in S }

\* ================================================================= the core
\* Sender::send(..).ok(): queued while the receiver lives, dropped otherwise
SendTo(chan, alive, batch) == IF alive THEN Append(chan, batch) ELSE chan

\* DeviceThreadHandle::redraw, reached through SDCore::mark_for_redraw
mark_for_redraw(chan, alive) == SendTo(chan, alive, <<Redraw>>)

\* a close that flips the flag instead of setting it
close_flag_toggle(old) == ~old

\* "*lock = true" of SDCore::close
close_flag(old) == TRUE

\* SDCore::is_closed
is_closed == should_close

ReadResults == {"NoData", "Hid", "Other"}
ReportLens == {1, 2}
Reports == UNION { [1..n -> Bytes] : n \in ReportLens }

InitAssets ==
    ("pic" :> SingleImage("p1"))
    @@ ("anim" :> AnimatedImage(<< AnimationFrame("A", 0, 2), AnimationFrame("B", 1, 2) >>))
AssetChoices == {SingleImage("p1"), SingleImage("p2")}

\* the state SDCore::new returns, the device thread spawned and its first Redraw sent
InitAt(assets, stack, chan, stored) ==
    /\ current_stack = stack
    /\ should_close = FALSE
    /\ image_collection = assets
    /\ cmd_chan = chan
    /\ rx_alive = TRUE
    /\ key_chan = <<>>
    /\ key_tx_alive = TRUE
    /\ key_rx_alive = TRUE
    /\ dev_pc = "top"
    /\ last_buttons = <<>>
    /\ renderer_cache = EmptyMap
    /\ animation_cache = EmptyMap
    /\ renderer_map = EmptyMap
    /\ animation_counters = EmptyMap
    /\ current_images = EmptyMap
    /\ kh_pc = "idle"
    /\ now = 0
    /\ dev_ops = <<>>
    /\ exec_last = <<>>
    /\ kh_last = <<>>
    /\ last_redraw = NoRedraw
    /\ dirty = TRUE
    /\ hid_state = "no"
    /\ anim_log = [k \in Keys |-> <<-1, -1>>]
    /\ encode_count = EmptyMap
    /\ last_read = "none"
    /\ last_report = NoReport
    /\ write_failed = {}
    /\ op_result = NoOp
    /\ handles = stored
    /\ devices = {}
    /\ clipboard = <<>>
    /\ last_request = NoRequest
    /\ last_poll = NoPoll

\* the state once SDCore::new has returned
InitWith(assets, stack, chan) == InitAt(assets, stack, chan, "stored")

\* SDCore::new: "current_stack: Mutex::new(vec![])"
NewStack == <<>>
\* spawn_device_thread: "tx.send(vec![DeviceThreadCommunication::Redraw])"
NewChannel == << <<Redraw>> >>

Init == InitWith(InitAssets, NewStack, NewChannel)

\* ---------------------------------------------------- screen stack operations
\* a stack mutation followed by the redraw it schedules
StackOp(op, stack) ==
    /\ Len(cmd_chan) < MaxQueue
    /\ current_stack' = stack
    /\ cmd_chan' = mark_for_redraw(cmd_chan, rx_alive)
    /\ dirty' = TRUE
    /\ op_result' = StackResult(op, current_stack, "Ok")
    /\ UNCHANGED << handles, daemonVars, should_close, image_collection, rx_alive, key_chan, key_tx_alive,
                    key_rx_alive, devVars, kh_pc, now, dev_ops, exec_last, kh_last,
                    last_redraw, hid_state, anim_log, histVars >>

push_screen(stack, screen) == Append(stack, screen)

\* a pop that removes the top screen whenever there is one
pop_screen_eager(stack) ==
    IF Len(stack) > 0 THEN [ok |-> TRUE, stack |-> SubSeq(stack, 1, Len(stack) - 1)]
    ELSE [ok |-> FALSE, stack |-> stack]

\* pop(): Ok and the stack without its top if more than one screen remains,
\* LastScreen and the stack as it was otherwise
pop_screen(stack) ==
    IF Len(stack) > 1 THEN [ok |-> TRUE, stack |-> SubSeq(stack, 1, Len(stack) - 1)]
    ELSE [ok |-> FALSE, stack |-> stack]
forcibly_pop_screen(stack) ==
    IF Len(stack) > 1 THEN SubSeq(stack, 1, Len(stack) - 1) ELSE << EmptyScreen >>
replace_screen(stack, screen) ==
    IF stack = <<>> THEN << screen >> ELSE [stack EXCEPT ![Len(stack)] = screen]
reset_stack(stack, screen) == << screen >>

Push(screen) == Len(current_stack) < MaxStack /\ StackOp("push", push_screen(current_stack, screen))
\* LastScreen: the failed pop changes nothing and schedules no redraw
PopFails ==
    /\ op_result' = StackResult("pop", current_stack, "LastScreen")
    /\ UNCHANGED << handles, daemonVars, coreVars, chanVars, devVars, kh_pc, now, dev_ops, exec_last, kh_last,
                    last_redraw, dirty, hid_state, anim_log, histVars >>

Pop ==
    LET r == pop_screen(current_stack)
    IN  IF r.ok THEN StackOp("pop", r.stack)
        ELSE current_stack' = r.stack /\ PopFails
ForciblyPop == StackOp("forcibly_pop", forcibly_pop_screen(current_stack))
Replace(screen) == StackOp("replace", replace_screen(current_stack, screen))
Reset(screen) == StackOp("reset", reset_stack(current_stack, screen))

\* an asset with one of the given ids is added, replaced or removed in the asset store
AssetChangeIn(ids) ==
    /\ \E id \in ids :
          \/ \E a \in AssetChoices : a # (IF id \in DOMAIN image_collection THEN image_collection[id] ELSE NoImg)
                                     /\ image_collection' = MapPut(image_collection, id, a)
          \/ id \in DOMAIN image_collection /\ image_collection' = MapRemove(image_collection, id)
    /\ dirty' = TRUE
    /\ UNCHANGED << extVars, current_stack, should_close, chanVars, devVars, kh_pc, now, dev_ops,
                    exec_last, kh_last, last_redraw, hid_state, anim_log, histVars >>

AssetChange == AssetChangeIn({"pic"})

\* SDCore::send_commands
SendCommands(batch) ==
    /\ Len(cmd_chan) < MaxQueue
    /\ cmd_chan' = SendTo(cmd_chan, rx_alive, batch)
    /\ UNCHANGED << extVars, coreVars, rx_alive, key_chan, key_tx_alive, key_rx_alive, devVars,
                    kh_pc, now, obsVars >>

\* SDCore::close called from outside the device thread
Close ==
    /\ Len(cmd_chan) < MaxQueue
    /\ should_close' = close_flag(should_close)
    /\ cmd_chan' = mark_for_redraw(cmd_chan, rx_alive)
    /\ UNCHANGED << extVars, current_stack, image_collection, rx_alive, key_chan, key_tx_alive,
                    key_rx_alive, devVars, kh_pc, now, obsVars >>

\* ---------------------------------------------------------------- key handler
\* the owner calls KeyHandler::run_loop
KhStart ==
    /\ kh_pc = "idle"
    /\ kh_pc' = "check"
    /\ UNCHANGED << extVars, coreVars, chanVars, devVars, now, obsVars >>

\* "if is_closed() { break }"
KhCheck ==
    /\ kh_pc = "check"
    /\ kh_pc' = IF is_closed THEN "returned" ELSE "recv"
    /\ kh_last' = <<>>
    /\ UNCHANGED << extVars, coreVars, chanVars, devVars, now, dev_ops, exec_last, last_redraw,
                    dirty, hid_state, anim_log, histVars >>

\* the edge receiver.recv() hands out
RecvEdge(chan) == Head(chan)

\* button_down / button_up for one received edge
Dispatch(edge) == << IF edge[2] THEN "button_down" ELSE "button_up", edge[1] >>

\* "if let Ok((key, state)) = receiver.recv() { .. } else { break }"
KhRecv ==
    /\ kh_pc = "recv"
    /\ \/ /\ key_chan # <<>>
          /\ kh_last' = Dispatch(RecvEdge(key_chan))
          /\ key_chan' = Tail(key_chan)
          /\ kh_pc' = "check"
       \/ /\ key_chan = <<>>
          /\ ~key_tx_alive
          /\ kh_last' = <<>>
          /\ key_chan' = key_chan
          /\ kh_pc' = "returned"
    /\ UNCHANGED << extVars, coreVars, cmd_chan, rx_alive, key_tx_alive, key_rx_alive, devVars, now,
                    dev_ops, exec_last, last_redraw, dirty, hid_state, anim_log, histVars >>

\* the owner drops the KeyHandler, and with it the receiver of the key channel
KhDrop ==
    /\ kh_pc \in {"idle", "returned"}
    /\ kh_pc' = "dropped"
    /\ key_rx_alive' = FALSE
    /\ key_chan' = <<>>
    /\ UNCHANGED << extVars, coreVars, cmd_chan, rx_alive, key_tx_alive, devVars, now, obsVars >>

\* ================================================================ device thread
\* a thread that ends while its key sender stays alive somewhere
ThreadEnds_keeps_sender(pc) ==
    /\ dev_pc' = pc
    /\ key_tx_alive' = key_tx_alive
    /\ rx_alive' = FALSE
    /\ cmd_chan' = <<>>

\* the thread ends: its key sender and its command receiver are dropped
ThreadEnds(pc) ==
    /\ dev_pc' = pc
    /\ key_tx_alive' = FALSE
    /\ rx_alive' = FALSE
    /\ cmd_chan' = <<>>

\* a loop that never looks at the closed flag
LoopExit_never(closed) == FALSE

\* "if core.core.is_closed() { break }": TRUE when the loop is left
LoopExit(closed) == closed

DevTop ==
    /\ dev_pc = "top"
    /\ IF LoopExit(is_closed)
       THEN ThreadEnds("exited")
       ELSE dev_pc' = "read" /\ UNCHANGED << extVars, cmd_chan, rx_alive, key_tx_alive >>
    /\ dev_ops' = <<>>
    /\ UNCHANGED << extVars, coreVars, key_chan, key_rx_alive, last_buttons, renderer_cache,
                    animation_cache, renderer_map, animation_counters, current_images,
                    kh_pc, now, exec_last, kh_last, last_redraw, dirty, hid_state, anim_log,
                    histVars >>

RECURSIVE Repeat(_, _)
Repeat(x, n) == IF n = 0 THEN <<>> ELSE <<x>> \o Repeat(x, n - 1)

\* a NoData read that forgets the previous report
AfterNoData_cleared(last) == <<>>

\* "streamdeck::Error::NoData => {}": last_buttons as the read leaves it
AfterNoData(last) == last

\* an error match in which no category closes the runtime
ReadErrorCloses_none(err) == FALSE

\* "streamdeck::Error::Hid(_) => core.core.close()": the categories that close
ReadErrorCloses(err) == err = "Hid"

\* read_buttons returned Ok(buttons)
DevReadOk(buttons) ==
    LET edges == ReportEdges(last_buttons, buttons)
    IN  /\ dev_pc = "read"
        /\ Len(key_chan) + Len(edges) <= MaxKeyQueue
        /\ IF key_rx_alive
           THEN /\ key_chan' = key_chan \o edges
                /\ UNCHANGED << extVars, should_close, cmd_chan >>
           ELSE \* every failed send calls core.close()
                /\ key_chan' = key_chan
                /\ should_close' = IF edges = <<>> THEN should_close ELSE close_flag(should_close)
                /\ cmd_chan' = cmd_chan \o Repeat(<<Redraw>>, Len(edges))
        /\ last_buttons' = buttons
        /\ dev_pc' = "cmd"
        /\ dev_ops' = <<>>
        /\ last_read' = "Ok"
        /\ last_report' = Report(Len(last_buttons), buttons)
        /\ UNCHANGED << extVars, current_stack, image_collection, rx_alive, key_tx_alive, key_rx_alive,
                        renderer_cache, animation_cache, renderer_map, animation_counters,
                        current_images, kh_pc, now, exec_last, kh_last, last_redraw, dirty,
                        hid_state, anim_log, encode_count, write_failed >>

\* "handles.as_ref().unwrap()" of mark_for_redraw: TRUE when it finds Some
HandlesFound(h) == h = "stored"

\* read_buttons returned Err(err)
DevReadErr(err) ==
    /\ dev_pc = "read"
    /\ CASE err = "NoData" ->
              /\ dev_pc' = "cmd"
              /\ last_buttons' = AfterNoData(last_buttons)
              /\ UNCHANGED << extVars, should_close, cmd_chan, rx_alive, key_tx_alive, hid_state >>
         [] err # "NoData" /\ ReadErrorCloses(err) /\ HandlesFound(handles) ->
              /\ should_close' = close_flag(should_close)
              /\ cmd_chan' = mark_for_redraw(cmd_chan, rx_alive)
              /\ hid_state' = "this"
              /\ dev_pc' = "cmd"
              /\ UNCHANGED << extVars, rx_alive, key_tx_alive, last_buttons >>
         [] err # "NoData" /\ ReadErrorCloses(err) /\ ~HandlesFound(handles) ->
              \* close() sets the flag; mark_for_redraw unwraps None and panics
              /\ should_close' = close_flag(should_close)
              /\ ThreadEnds("panicked")
              /\ hid_state' = "this"
              /\ UNCHANGED << extVars, last_buttons >>
         [] OTHER ->
              \* panic!("Error on streamdeck thread")
              /\ ThreadEnds("panicked")
              /\ UNCHANGED << extVars, should_close, hid_state, last_buttons >>
    /\ dev_ops' = <<>>
    /\ last_read' = err
    /\ last_report' = NoReport
    /\ UNCHANGED << extVars, current_stack, image_collection, key_chan, key_rx_alive,
                    renderer_cache, animation_cache, renderer_map, animation_counters,
                    current_images, kh_pc, now, exec_last, kh_last, last_redraw, dirty,
                    anim_log, encode_count, write_failed >>

DevRead == \/ \E buttons \in Reports : DevReadOk(buttons)
           \/ \E err \in ReadResults : DevReadErr(err)

\* keys addressed by the image writes and clears among ops
OpKeys(ops) == { ops[i].key : i \in { j \in DOMAIN ops : ops[j].op \in {"write", "clear"} } }

\* the results the device may give to the writes and clears of one step: the
\* set of keys whose latest operation returned Err; every result is dropped by ".ok()"
WriteResults(ops, may_fail) == IF may_fail THEN SUBSET OpKeys(ops) ELSE { {} }
AfterWrites(failed, ops, f) == (failed \ OpKeys(ops)) \cup f

\* a device thread that closes the runtime when a write returns Err
OnWriteError_closes(f, closed) == closed \/ f # {}

\* "write_button_image(..).ok()", "set_button_rgb(..).ok()": the Err is dropped
OnWriteError(f, closed) == closed

\* "match rx.try_recv()": one batch, or nothing when the channel is empty
DevCmdIO(may_fail) ==
    /\ dev_pc = "cmd"
    /\ LET ds0 == [cache |-> renderer_cache, rmap |-> renderer_map, images |-> current_images,
                   counters |-> animation_counters, ops |-> <<>>, exec |-> <<>>,
                   lr |-> last_redraw, dirty |-> dirty, failed |-> write_failed]
           got == IF cmd_chan = <<>> THEN <<>> ELSE TryRecv(cmd_chan).got
       IN  \E ds \in {IF got = <<>> THEN ds0
                        ELSE ProcessBatch(got[1], current_stack, image_collection, ds0)} :
           /\ cmd_chan' = IF cmd_chan = <<>> THEN cmd_chan ELSE TryRecv(cmd_chan).rest
           /\ renderer_cache' = ds.cache
           /\ renderer_map' = ds.rmap
           /\ current_images' = ds.images
           /\ dev_ops' = ds.ops
           /\ exec_last' = ds.exec
           /\ last_redraw' = ds.lr
           /\ dirty' = ds.dirty
           /\ \E f \in WriteResults(ds.ops, may_fail) :
                 /\ write_failed' = AfterWrites(write_failed, ds.ops, f)
                 /\ should_close' = OnWriteError(f, should_close)
    /\ dev_pc' = "anim"
    /\ UNCHANGED << extVars, current_stack, image_collection, rx_alive, key_chan, key_tx_alive, key_rx_alive, last_buttons,
                    animation_cache, animation_counters, kh_pc, now, kh_last, hid_state,
                    anim_log, encode_count, last_read, last_report >>

\* the command step against a device that accepts every write
DevCmd == DevCmdIO(FALSE)

DevAnimIO(may_fail) ==
    /\ dev_pc = "anim"
    /\ \E order \in OrdersOf(DOMAIN renderer_map) :
          LET st0 == [counters |-> animation_counters, cache |-> animation_cache,
                      ops |-> <<>>, count |-> encode_count, log |-> anim_log]
          IN  \E st \in {process_animations(order, renderer_map, image_collection, now, st0)} :
              /\ animation_counters' = st.counters
              /\ animation_cache' = st.cache
              /\ dev_ops' = st.ops
              /\ anim_log' = st.log
              /\ encode_count' = st.count
              /\ \E f \in WriteResults(st.ops, may_fail) :
                    /\ write_failed' = AfterWrites(write_failed, st.ops, f)
                    /\ should_close' = OnWriteError(f, should_close)
    /\ dev_pc' = "sleep"
    /\ UNCHANGED << extVars, current_stack, image_collection, chanVars, last_buttons, renderer_cache, renderer_map,
                    current_images, kh_pc, now, exec_last, kh_last, last_redraw, dirty,
                    hid_state, last_read, last_report >>

\* the animated step against a device that accepts every write
DevAnim == DevAnimIO(FALSE)

\* the rate limiter: the iteration ends dt clock units after the animated step
Sleep(dt) ==
    /\ dev_pc = "sleep"
    /\ dev_pc' = "top"
    /\ now' = now + dt
    /\ dev_ops' = <<>>
    /\ hid_state' = IF hid_state = "this" THEN "earlier" ELSE hid_state
    /\ last_read' = "none"
    /\ last_report' = NoReport
    /\ UNCHANGED << extVars, coreVars, chanVars, last_buttons, renderer_cache, animation_cache,
                    renderer_map, animation_counters, current_images, kh_pc, exec_last,
                    kh_last, last_redraw, dirty, anim_log, encode_count, write_failed >>

\* the clock is not observed where no animation runs
DevSleep == Sleep(0)

DevReadNoData == DevReadErr("NoData")
DevReadFail == \E err \in ReadResults : DevReadErr(err)

DevStep == DevTop \/ DevRead \/ DevCmd \/ DevAnim \/ DevSleep
KhStep == KhCheck \/ KhRecv

\* ----------------------------------------------------------- specifications
\* screen stack: every stack operation, against the running loop
NextStack ==
    \/ \E s \in Screens : Push(s)
    \/ Pop
    \/ ForciblyPop
    \/ \E s \in Screens : Replace(s)
    \/ \E s \in Screens : Reset(s)
    \/ DevTop
    \/ DevReadNoData
    \/ DevCmd
    \/ DevAnim
    \/ DevSleep

SpecStack == Init /\ [][NextStack]_vars

\* command channel and shutdown: batches, close() and failing reads
NextCmd ==
    \/ Reset(ScreenStatic)
    \/ \E b \in Batches : SendCommands(b)
    \/ Close
    \/ DevTop
    \/ DevReadFail
    \/ DevCmd
    \/ DevAnim
    \/ DevSleep

SpecCmd == Init /\ [][NextCmd]_vars

\* rendering: screens and assets change between redraws
NextRender ==
    \/ \E s \in Screens \cup {ScreenSame, ScreenTwins, ScreenAnimMix} : Reset(s)
    \/ AssetChange
    \/ SendCommands(<<Redraw>>)
    \/ DevTop
    \/ DevReadNoData
    \/ DevCmd
    \/ DevAnim
    \/ DevSleep

SpecRender == Init /\ [][NextRender]_vars

\* input: button reports, the key channel and the key handler
NextInput ==
    \/ Close
    \/ KhStart
    \/ KhCheck
    \/ KhRecv
    \/ KhDrop
    \/ DevTop
    \/ DevRead
    \/ DevCmd
    \/ DevAnim
    \/ DevSleep

SpecInput == Init /\ [][NextInput]_vars

\* both threads are scheduled fairly
SpecLive == Init /\ [][NextInput]_vars /\ WF_vars(DevStep) /\ WF_vars(KhStep)

\* animation: one animated key, the clock advancing with every loop iteration
Delays == {2, 3}
FrameNames == <<"A", "B", "C", "D", "E">>
FrameLists ==
    UNION { { [i \in 1..n |-> AnimationFrame(FrameNames[i], i - 1, d[i])] : d \in [1..n -> Delays] }
            : n \in 2..MaxFrames }

AnimScreens == {ScreenAnim, ScreenAnimTwins, ScreenAnimNoCache}

InitAnim ==
    \E frames \in FrameLists, screen \in AnimScreens :
        \* SDCore::new, then reset_stack(screen) and the redraw it scheduled
        InitWith("anim" :> AnimatedImage(frames),
                 reset_stack(NewStack, screen),
                 mark_for_redraw(NewChannel, TRUE))

AnimSleep == \E dt \in 1..TickMax : now + dt <= MaxTime /\ Sleep(dt)

NextAnim ==
    \/ DevTop
    \/ DevReadNoData
    \/ DevCmd
    \/ DevAnim
    \/ AnimSleep

SpecAnim == InitAnim /\ [][NextAnim]_vars

\* construction: the device thread runs while SDCore::new has not yet stored
\* the thread handles
InitCtor == InitAt(InitAssets, NewStack, NewChannel, "none")

\* SDCore::new: "*handles = Some(ThreadHandles { .. })"
CtorStore ==
    /\ handles = "none"
    /\ handles' = "stored"
    /\ UNCHANGED << coreVars, chanVars, devVars, kh_pc, now, obsVars, op_result, daemonVars >>

\* close() called by the owner of the core, who has it from SDCore::new
OwnerClose == handles = "stored" /\ Close

NextCtor ==
    \/ CtorStore
    \/ OwnerClose
    \/ DevTop
    \/ DevRead
    \/ DevCmd
    \/ DevAnim
    \/ DevSleep

SpecCtor == InitCtor /\ [][NextCtor]_vars

\* key indices: screens and commands that name keys the device does not have
KeyScreens == {ScreenStatic, ScreenMixed, ScreenWide}
KeyBatches == { <<Redraw>>,
                <<SetButtonImage(key_count, Img("solid", "blue"))>>,
                <<SetButtonImageRaw(0, [image |-> Img("solid", "green"), via |-> "raw"]),
                  ClearButtonImage(key_count + 1)>> }

NextKeys ==
    \/ \E s \in KeyScreens : Reset(s)
    \/ ForciblyPop
    \/ \E b \in KeyBatches : SendCommands(b)
    \/ DevTop
    \/ DevReadNoData
    \/ DevCmd
    \/ DevAnim
    \/ DevSleep

SpecKeys == Init /\ [][NextKeys]_vars

\* an animation whose asset is replaced or removed while its key is shown
InitStale ==
    InitWith(InitAssets, reset_stack(NewStack, ScreenAnim), mark_for_redraw(NewChannel, TRUE))

AnimAssetChange == AssetChangeIn({"anim"})

NextStale ==
    \/ AnimAssetChange
    \/ SendCommands(<<Redraw>>)
    \/ DevTop
    \/ DevReadNoData
    \/ DevCmd
    \/ DevAnim
    \/ AnimSleep

SpecStale == InitStale /\ [][NextStale]_vars

\* animation under a fair loop: screens come and go, the owner may close, the
\* device thread keeps iterating and every iteration takes clock time
LiveFrameLists ==
    { << AnimationFrame("A", 0, 2) >>,
      << AnimationFrame("A", 0, 0), AnimationFrame("B", 1, 3) >> }
LiveScreens == {ScreenAnimNoCache, ScreenStatic}

InitAnimLive ==
    \E frames \in LiveFrameLists, screen \in LiveScreens :
        InitWith(("pic" :> SingleImage("p1")) @@ ("anim" :> AnimatedImage(frames)),
                 reset_stack(NewStack, screen),
                 mark_for_redraw(NewChannel, TRUE))

\* one step of the device thread's loop, the rate limiter's sleep included
AnimLoop == DevTop \/ DevReadNoData \/ DevCmd \/ DevAnim \/ AnimSleep

\* the owner acts once the thread has taken up everything sent before
LiveReset == cmd_chan = <<>> /\ \E s \in LiveScreens : Reset(s)
LiveClose == cmd_chan = <<>> /\ Close

NextAnimLive ==
    \/ LiveReset
    \/ LiveClose
    \/ DevTop
    \/ DevReadNoData
    \/ DevCmd
    \/ DevAnim
    \/ AnimSleep

SpecAnimLive == InitAnimLive /\ [][NextAnimLive]_vars /\ WF_vars(AnimLoop)

\* the daemon's poll_device: what the reader may return
ButtonIds == {7}
EncoderIds == {0, 3}
Twists == {-1}
Points == { <<799, 99>> }
Updates ==
    { ButtonDown(b) : b \in ButtonIds } \cup { ButtonUp(b) : b \in ButtonIds }
    \cup { EncoderDown(e) : e \in EncoderIds } \cup { EncoderUp(e) : e \in EncoderIds }
    \cup { EncoderTwist(e, d) : e \in EncoderIds, d \in Twists }
    \cup { TouchScreenPress(pt[1], pt[2]) : pt \in Points }
    \cup { TouchScreenLongPress(pt[1], pt[2]) : pt \in Points }
    \cup { TouchScreenSwipe(pt, <<799, 0>>) : pt \in Points }
EventLists == UNION { [1..n -> Updates] : n \in 0..MaxEvents }
Words == {"device", "disconnected", "timeout"}
Messages == UNION { [1..n -> Words] : n \in 0..MaxWords }
DriverErrors ==
    { StreamDeckError("HidError", "HidApiError", m) : m \in Messages }
    \cup { StreamDeckError("HidError", "IoError", Disconnected),
           StreamDeckError("HidError", "InitializationError", <<>>),
           StreamDeckError("BadData", "", Disconnected),
           StreamDeckError("NoScreen", "", <<>>) }

\* StreamdeckDevice::poll_device, the read succeeding
PollOk ==
    /\ \E events \in EventLists : last_poll' = poll_ok(events)
    /\ UNCHANGED << coreVars, chanVars, devVars, kh_pc, now, obsVars, op_result, handles, devices,
                    clipboard, last_request >>

\* StreamdeckDevice::poll_device, the read failing
PollErr ==
    /\ \E err \in DriverErrors : last_poll' = poll_err(err)
    /\ UNCHANGED << coreVars, chanVars, devVars, kh_pc, now, obsVars, op_result, handles, devices,
                    clipboard, last_request >>

NextPoll == PollOk \/ PollErr

SpecPoll == Init /\ [][NextPoll]_vars

\* a Plus device: every update its reader can return, one per read
LayoutTwists == {-1, 1}
LayoutPoints == { <<x, y>> : x \in {0, 400, 799}, y \in {0, 50, 99} }
PlusUpdates ==
    LET keys == 0..(KindPlus.row_count * KindPlus.column_count - 1)
        encoders == 0..(KindPlus.encoder_count - 1)
    IN  { ButtonDown(b) : b \in keys } \cup { ButtonUp(b) : b \in keys }
        \cup { EncoderDown(e) : e \in encoders } \cup { EncoderUp(e) : e \in encoders }
        \cup { EncoderTwist(e, d) : e \in encoders, d \in LayoutTwists }
        \cup { TouchScreenPress(pt[1], pt[2]) : pt \in LayoutPoints }
        \cup { TouchScreenLongPress(pt[1], pt[2]) : pt \in LayoutPoints }
        \cup { TouchScreenSwipe(s, e) : s \in LayoutPoints, e \in LayoutPoints }

PlusPoll ==
    /\ \E update \in PlusUpdates : last_poll' = poll_ok(<< update >>)
    /\ UNCHANGED << coreVars, chanVars, devVars, kh_pc, now, obsVars, op_result, handles, devices,
                    clipboard, last_request >>

SpecLayout == Init /\ [][PlusPoll]_vars

\* socket requests against a registry of devices that connect and disconnect
Serials == {"AL01", "CL02"}
RequestKeys == {0, 1}

\* a device is connected and registered under its serial number
ConnectDevice(serial) ==
    /\ serial \notin devices
    /\ devices' = devices \cup {serial}
    /\ UNCHANGED << coreVars, chanVars, devVars, kh_pc, now, obsVars, op_result, handles,
                    clipboard, last_request, last_poll >>

\* a device leaves the registry
DisconnectDevice(serial) ==
    /\ serial \in devices
    /\ devices' = devices \ {serial}
    /\ UNCHANGED << coreVars, chanVars, devVars, kh_pc, now, obsVars, op_result, handles,
                    clipboard, last_request, last_poll >>

\* one request packet handled from arrival to the handler's return
HandleRequest(kind) ==
    /\ \E parsed \in BOOLEAN, serial \in Serials, key \in RequestKeys,
          component \in BOOLEAN, core_ok \in BOOLEAN :
          LET handled == process(kind, parsed, get_device(devices, serial), component,
                                 clipboard # <<>>, core_ok)
          IN /\ last_request' = Request(kind, parsed, serial, key, handled.calls,
                                        handled.responses)
             /\ clipboard' = ClipboardAfter(clipboard, kind, serial, key, handled)
    /\ UNCHANGED << coreVars, chanVars, devVars, kh_pc, now, obsVars, op_result, handles,
                    devices, last_poll >>

NextRequests ==
    \/ \E serial \in Serials : ConnectDevice(serial)
    \/ \E serial \in Serials : DisconnectDevice(serial)
    \/ \E kind \in RequestKinds : HandleRequest(kind)

SpecRequests == Init /\ [][NextRequests]_vars

\* the clipboard requests of the socket, devices connecting and disconnecting
ClipboardStatus ==
    /\ \E parsed \in BOOLEAN :
          LET handled == clipboard_status(parsed, clipboard # <<>>)
          IN  last_request' = Request("clipboard_status", parsed, "", 0, handled.calls,
                                      handled.responses)
    /\ UNCHANGED << coreVars, chanVars, devVars, kh_pc, now, obsVars, op_result, handles,
                    devices, clipboard, last_poll >>

CopyButton == HandleRequest("copy_button")
PasteButton == HandleRequest("paste_button")

NextClipboard ==
    \/ \E serial \in Serials : ConnectDevice(serial)
    \/ \E serial \in Serials : DisconnectDevice(serial)
    \/ CopyButton
    \/ PasteButton
    \/ ClipboardStatus

SpecClipboard == Init /\ [][NextClipboard]_vars

\* failing writes: the device may answer any write or clear with an error,
\* while an animated key and static keys are shown and the clock advances
FailScreens == {ScreenAnimMix}
FailBatches == { <<Redraw>>,
                 <<SetButtonImage(1, Img("solid", "blue")), SetButtonImageRaw(0, [image |-> Img("solid", "green"), via |-> "raw"])>> }
DevCmdFail == DevCmdIO(TRUE)
DevAnimFail == DevAnimIO(TRUE)

NextFail ==
    \/ \E s \in FailScreens : Reset(s)
    \/ \E b \in FailBatches : SendCommands(b)
    \/ DevTop
    \/ DevReadNoData
    \/ DevCmdFail
    \/ DevAnimFail
    \/ AnimSleep

SpecFail == Init /\ [][NextFail]_vars

\* ===================================================================== claims
IsPrefix(p, q) == Len(p) <= Len(q) /\ SubSeq(q, 1, Len(p)) = p
EdgeCount(q, e) == Cardinality({j \in DOMAIN q : q[j] = e})
\* what a step appended to the key channel
NewEdges == SubSeq(key_chan', Len(key_chan) + 1, Len(key_chan'))
ReadStep == dev_pc = "read" /\ dev_pc' = "cmd"
CmdStep == dev_pc = "cmd" /\ dev_pc' = "anim"
DispatchStep == kh_pc = "recv" /\ kh_pc' = "check"

\* C1: in every reachable state of a live runtime, starting from the state
\* SDCore::new creates, the screen stack holds at least one screen.
C1_StackNeverEmpty == Len(current_stack) >= 1

\* C2: the device thread executes commands in the order they were enqueued:
\* a command step executes exactly the oldest batch, whole and in vector order,
\* and removes it; every other step only appends behind what is already queued.
C2_CommandOrder ==
    [][ IF CmdStep
        THEN IF cmd_chan = <<>>
             THEN exec_last' = <<>> /\ cmd_chan' = <<>>
             ELSE exec_last' = Head(cmd_chan) /\ cmd_chan' = Tail(cmd_chan)
        ELSE rx_alive' => IsPrefix(cmd_chan, cmd_chan') ]_vars

C2_Witness ==
    /\ exec_last = <<SetBrightness(10), SetBrightness(20)>>
    /\ cmd_chan # <<>>
    /\ Head(cmd_chan) = <<ClearButtonImage(0), Redraw>>

\* C3: for a key that has a value in last_buttons, a report sends the pressed
\* edge exactly when the value rises from 0 to nonzero, the released edge
\* exactly when it falls from nonzero to 0, and no edge otherwise.
C3_EdgeRule ==
    [][ (ReadStep /\ key_rx_alive) =>
          \A k \in Keys :
             (k < Len(last_buttons) /\ k < Len(last_buttons')) =>
                LET l == last_buttons[k + 1]
                    v == last_buttons'[k + 1]
                IN  /\ EdgeCount(NewEdges, <<k, TRUE>>) = (IF l = 0 /\ v # 0 THEN 1 ELSE 0)
                    /\ EdgeCount(NewEdges, <<k, FALSE>>) = (IF l # 0 /\ v = 0 THEN 1 ELSE 0) ]_vars

\* C4: the edges of one report are appended to the key channel in ascending key
\* index behind the edges of earlier reports, and run_loop dispatches the oldest
\* edge first, button_down for a press and button_up for a release.
C4_EdgeOrder ==
    [][ /\ ReadStep =>
             /\ IsPrefix(key_chan, key_chan')
             /\ \A i, j \in DOMAIN NewEdges : i < j => NewEdges[i][1] < NewEdges[j][1]
        /\ DispatchStep =>
             /\ key_chan # <<>>
             /\ kh_last' = << IF Head(key_chan)[2] THEN "button_down" ELSE "button_up",
                              Head(key_chan)[1] >>
             /\ key_chan' = Tail(key_chan)
        /\ (~ReadStep /\ ~DispatchStep /\ key_rx_alive') => key_chan' = key_chan ]_vars

C4_Witness ==
    /\ kh_last = <<"button_down", 0>>
    /\ key_chan = << <<1, TRUE>> >>
    /\ last_buttons = <<1, 1>>

C6_NoOpAfterHid == hid_state # "no" => dev_ops = <<>>

\* C6 as amended: no device operation is issued after the iteration in which the
\* Hid error was read has ended.
C6_NoOpAfterHidIteration == hid_state = "earlier" => dev_ops = <<>>

C6_Witness == hid_state = "earlier" /\ dev_pc = "exited"

\* C7: once close() has set the closed flag, no operation resets it.
C7_ClosedForever == [][ should_close => should_close' ]_vars

C7_Witness == should_close /\ hid_state = "no" /\ dev_pc = "exited"

\* C8: after close(), under fair scheduling, the device thread leaves its loop,
\* a thread that left its loop has dropped its key sender, and a running
\* run_loop returns.
C8_Shutdown ==
    /\ should_close ~> (dev_pc \in {"exited", "panicked"})
    /\ [](dev_pc \in {"exited", "panicked"} => ~key_tx_alive)
    /\ (should_close /\ kh_pc \in {"check", "recv"}) ~> (kh_pc = "returned")

C8_Witness == should_close /\ dev_pc = "exited" /\ ~key_tx_alive /\ kh_pc = "returned"

\* d_0 + ... + d_i of a counter (i is 0-based)
RECURSIVE DelaySum(_, _)
DelaySum(counter, i) ==
    IF i < 0 THEN 0 ELSE counter.frames[i + 1].frame.delay + DelaySum(counter, i - 1)

\* the least i with d_0 + ... + d_i > t mod D
LeastIndex(counter, t) ==
    CHOOSE i \in 0..(Len(counter.frames) - 1) :
        /\ DelaySum(counter, i) > t % counter.duration
        /\ \A j \in 0..(i - 1) : DelaySum(counter, j) <= t % counter.duration

\* the animated asset a key of the render-map shows
AnimOf(k) == image_collection[renderer_map[k].component.background[2]]

\* C9: with at least two frames, every delay longer than a loop iteration, each
\* frame index the animated step writes is the previously written one plus one,
\* modulo the number of frames.
C9_NoFrameSkipped ==
    \A k \in DOMAIN renderer_map :
        ( /\ anim_log[k][1] # -1
          /\ Len(AnimOf(k).frames) >= 2
          /\ \A i \in DOMAIN AnimOf(k).frames : AnimOf(k).frames[i].delay > TickMax )
        => anim_log[k][2] = (anim_log[k][1] + 1) % Len(AnimOf(k).frames)

\* C10: after every advance_counter call at elapsed time t, the index of the
\* counter is the least i with d_0 + ... + d_i > t mod D.
C10_IndexIsCurrentFrame ==
    dev_pc = "sleep" =>
        \A id \in DOMAIN animation_counters :
            LET c == animation_counters[id]
            IN  c.duration > 0 => c.index = LeastIndex(c, now - c.time)

\* the to_cache flag of the component a cache key was computed from
HashToCache(h) == h[2][3]
\* the frame index an animated cache key was computed from
HashFrame(h) == h[3]

\* C11: over the whole run, the animated step encodes a combination of
\* component content and frame index whose to_cache is true at most once, and
\* the blob it encoded stays in the encoded cache for every later write.
C11_EncodedAtMostOnce ==
    \A h \in DOMAIN encode_count :
        HashToCache(h) => /\ encode_count[h] <= 1
                          /\ h \in DOMAIN animation_cache

\* frame 0 of a cached component has come round again after another frame
C11_Witness ==
    /\ 0 \in DOMAIN renderer_map
    /\ renderer_map[0].component.to_cache
    /\ anim_log[0][1] > 0
    /\ anim_log[0][2] = 0
    /\ \E h \in DOMAIN encode_count : HashToCache(h) /\ HashFrame(h) = 0 /\ encode_count[h] = 1

\* C12: every entry of the decoded cache and of the encoded cache was made while
\* rendering a component whose to_cache flag is true.
C12_CachedOnlyWithToCache ==
    /\ \A h \in DOMAIN renderer_cache : HashToCache(h)
    /\ \A h \in DOMAIN animation_cache : HashToCache(h)

\* C13: two renderer components on the current render-map with equal background
\* and equal text list have the same static cache key, whatever their to_cache.
C13_ToCacheNotHashed ==
    \A j, k \in DOMAIN renderer_map :
        LET cj == renderer_map[j].component
            ck == renderer_map[k].component
        IN  (cj.background = ck.background /\ cj.text = ck.text)
            => StaticHash(cj, renderer_map[j].button) = StaticHash(ck, renderer_map[k].button)

\* the screen the latest Redraw read, while nothing has changed since
RedrawSettled == last_redraw.found /\ ~dirty
TopScreen == current_stack[Len(current_stack)]
\* the image composing the button of key k gives from the present asset store
Compose(k) ==
    LET button == TopScreen[k]
        component == parse_renderer(button)[1]
    IN  draw_foreground(component, button,
                        draw_background(component, image_collection, animation_counters))
\* keys the latest Redraw served from the decoded cache
HitKeys == last_redraw.written \ last_redraw.composed
\* the operations the latest Redraw issued for key k
RedrawOpsOf(k) == LET ForKey(op) == op.key = k IN SelectSeq(last_redraw.ops, ForKey)

\* C14: the image a Redraw writes for a key it serves from the decoded cache is
\* the image composing that button from the asset store gives at that moment.
C14_HitMatchesCompose ==
    RedrawSettled =>
        \A k \in HitKeys : RedrawOpsOf(k) = << DevOp("write", k, convert_image(Compose(k)), "redraw") >>

\* C15: a Redraw that finds a current screen handles every key exactly once: one
\* black clear for no button or no renderer component, nothing for an animated
\* background, one image write otherwise, of the cached image on a hit and of
\* the freshly composed image on a miss.
C15_EveryKeyOnce ==
    RedrawSettled =>
        \A k \in Keys :
            IF k \notin DOMAIN TopScreen \/ parse_renderer(TopScreen[k]) = <<>>
            THEN RedrawOpsOf(k) = << DevOp("clear", k, NoImg, "redraw") >>
            ELSE LET component == parse_renderer(TopScreen[k])[1]
                     hash == StaticHash(component, TopScreen[k])
                 IN  IF IsAnimatedBg(component, image_collection)
                     THEN RedrawOpsOf(k) = <<>>
                     ELSE /\ hash \in DOMAIN renderer_cache
                          /\ RedrawOpsOf(k) =
                                << DevOp("write", k, convert_image(renderer_cache[hash]), "redraw") >>
                          /\ k \in last_redraw.composed => renderer_cache[hash] = Compose(k)

\* an animated key next to a key served from the decoded cache
C15_Witness ==
    /\ RedrawSettled
    /\ TopScreen = ScreenAnimMix
    /\ HitKeys = {1}
    /\ Len(last_redraw.ops) = 1

\* the step processes a batch that holds a Redraw
RedrawStep == CmdStep /\ cmd_chan # <<>> /\ \E i \in DOMAIN Head(cmd_chan) : Head(cmd_chan)[i] = Redraw
\* keys of a screen that have, or lack, a renderer component
Rendered(screen) == { k \in Keys : k \in DOMAIN screen /\ parse_renderer(screen[k]) # <<>> }

\* C16: a Redraw reads the screen stack as it is when the Redraw is processed,
\* every mutation completed before the Redraw was enqueued included: it writes
\* the keys that have a renderer on the top screen and clears the other keys.
C16_RedrawSeesMutation ==
    [][ RedrawStep =>
          IF current_stack = <<>>
          THEN ~last_redraw'.found /\ last_redraw'.ops = <<>>
          ELSE /\ last_redraw'.found
               /\ last_redraw'.written = Rendered(TopScreen)
               /\ last_redraw'.cleared = Keys \ Rendered(TopScreen) ]_vars

\* the Redraw scheduled by a push has shown the pushed screen
C16_Witness ==
    /\ RedrawSettled
    /\ Len(current_stack) = 2
    /\ current_stack[1] = ScreenMixed
    /\ TopScreen = ScreenStatic
    /\ last_redraw.written = Keys

\* the step processes a batch made of SetBrightness commands only
BrightnessStep ==
    CmdStep /\ cmd_chan # <<>> /\ \A i \in DOMAIN Head(cmd_chan) : Head(cmd_chan)[i].cmd = "SetBrightness"

\* C17: processing SetBrightness(b) calls set_brightness once with b and does
\* nothing else: no image write or clear, no redraw run or scheduled, caches,
\* render-map and animation counters as they were.
C17_BrightnessOnly ==
    [][ BrightnessStep =>
          /\ dev_ops' = [ i \in DOMAIN Head(cmd_chan) |->
                            DevOp("brightness", Head(cmd_chan)[i].key, NoImg, "command") ]
          /\ cmd_chan' = Tail(cmd_chan)
          /\ UNCHANGED << extVars, renderer_cache, animation_cache, renderer_map, animation_counters,
                          current_images, last_redraw >> ]_vars

C17_Witness ==
    /\ dev_pc = "anim"
    /\ exec_last = << SetBrightness(10), SetBrightness(20) >>
    /\ Len(dev_ops) = 2
    /\ dev_ops[2].op = "brightness" /\ dev_ops[2].key = 20
    /\ renderer_cache # EmptyMap

\* the button read of this step returned NoData
NoDataStep == dev_pc = "read" /\ last_read' = "NoData"

\* C18: a read that returns NoData sends no key edge, keeps last_buttons, does
\* not close the runtime, and its iteration goes on to the command step and
\* the animated step.
C18_NoDataIgnored ==
    /\ [][ NoDataStep =>
              /\ key_chan' = key_chan
              /\ last_buttons' = last_buttons
              /\ should_close' = should_close
              /\ cmd_chan' = cmd_chan
              /\ dev_pc' = "cmd" ]_vars
    /\ [](last_read = "NoData" => dev_pc \in {"cmd", "anim", "sleep"})
    /\ [][ (last_read = "NoData" /\ dev_pc' # dev_pc) =>
              \/ dev_pc = "cmd" /\ dev_pc' = "anim"
              \/ dev_pc = "anim" /\ dev_pc' = "sleep"
              \/ dev_pc = "sleep" /\ dev_pc' = "top" ]_vars

C18_Witness ==
    /\ last_read = "NoData"
    /\ dev_pc = "sleep"
    /\ last_buttons = <<1, 1>>
    /\ key_chan # <<>>
    /\ ~should_close

\* C19: a read that returns an Hid error sets the closed flag in its iteration,
\* and when that iteration has ended the device thread leaves its loop at the
\* top of the next one; no input report is read after the error.
C19_HidCloses ==
    /\ [](last_read = "Hid" => should_close)
    /\ [](hid_state = "earlier" => dev_pc \in {"top", "exited"})
    /\ [][ (hid_state = "earlier" /\ dev_pc = "top" /\ dev_pc' # dev_pc) => dev_pc' = "exited" ]_vars
    /\ [][ hid_state # "no" => (dev_pc' # "read" /\ last_buttons' = last_buttons) ]_vars

C19_Witness ==
    /\ hid_state = "earlier"
    /\ should_close
    /\ dev_pc = "exited"
    /\ ~rx_alive
    /\ last_read = "none"

\* the key shows an animated background on the top screen
AnimatedKey(k) ==
    /\ k \in Rendered(TopScreen)
    /\ IsAnimatedBg(parse_renderer(TopScreen[k])[1], image_collection)
\* the latest Redraw of the step issues an operation for key k
RedrawTouches(k) == \E i \in DOMAIN last_redraw'.ops : last_redraw'.ops[i].key = k
\* a command step or an animated step, whatever the device answered
DeviceStep == (dev_pc = "cmd" /\ dev_pc' # dev_pc) \/ (dev_pc = "anim" /\ dev_pc' # dev_pc)
WriteErrorsDropped ==
    DeviceStep => (should_close' = should_close /\ dev_pc' \in {"anim", "sleep"})

C21_PopLastScreen ==
    op_result.op = "pop" =>
        IF Len(op_result.before) > 1
        THEN /\ op_result.result = "Ok"
             /\ current_stack = SubSeq(op_result.before, 1, Len(op_result.before) - 1)
        ELSE /\ op_result.result = "LastScreen"
             /\ current_stack = op_result.before

\* the only screen has survived a pop
C21_Witness ==
    /\ op_result.op = "pop"
    /\ op_result.result = "LastScreen"
    /\ Len(current_stack) = 1
    /\ current_stack[1] = ScreenStatic

\* the latest poll read exactly one update
OneUpdate == last_poll.result.kind = "Ok" /\ Len(last_poll.events) = 1

\* C22: a touch strip Press at (x, y) gives XYPanelPress then XYPanelRelease
\* with time_held 0.2, a LongPress the same pair with time_held 1.1, a Swipe
\* the single XYPanelSwipe from start to end, all of them on input id 8.
C22_TouchExpansion ==
    OneUpdate =>
        LET u == last_poll.events[1]
        IN  /\ u.kind = "TouchScreenPress" =>
                  last_poll.sent = << [input |-> 8, event |-> XYPanelPress(u.from)],
                                      [input |-> 8, event |-> XYPanelRelease(u.from, 2)] >>
            /\ u.kind = "TouchScreenLongPress" =>
                  last_poll.sent = << [input |-> 8, event |-> XYPanelPress(u.from)],
                                      [input |-> 8, event |-> XYPanelRelease(u.from, 11)] >>
            /\ u.kind = "TouchScreenSwipe" =>
                  last_poll.sent = << [input |-> 8, event |-> XYPanelSwipe(u.from, u.to)] >>

C22_Witness ==
    /\ last_poll.events = << TouchScreenLongPress(799, 99) >>
    /\ Len(last_poll.sent) = 2
    /\ last_poll.sent[2].event.time_held = 11

\* C23: EncoderDown(e), EncoderUp(e) and EncoderTwist(e, d) give one payload
\* each on input id e + 9, with ButtonPressed, ButtonReleased and
\* EndlessKnob(d); ButtonDown(b) and ButtonUp(b) give one payload on input id b.
C23_EncoderOffset ==
    OneUpdate =>
        LET u == last_poll.events[1]
        IN  /\ u.kind = "EncoderDown" =>
                  last_poll.sent = << [input |-> u.input + 9, event |-> ButtonPressed] >>
            /\ u.kind = "EncoderUp" =>
                  last_poll.sent = << [input |-> u.input + 9, event |-> ButtonReleased] >>
            /\ u.kind = "EncoderTwist" =>
                  last_poll.sent = << [input |-> u.input + 9, event |-> EndlessKnob(u.amount)] >>
            /\ u.kind = "ButtonDown" =>
                  last_poll.sent = << [input |-> u.input, event |-> ButtonPressed] >>
            /\ u.kind = "ButtonUp" =>
                  last_poll.sent = << [input |-> u.input, event |-> ButtonReleased] >>

C23_Witness ==
    /\ last_poll.events = << EncoderTwist(3, -1) >>
    /\ last_poll.sent = << [input |-> 12, event |-> EndlessKnob(-1)] >>

\* the error is an HID API error whose message has "device disconnected" in it
SaysDisconnected(err) ==
    /\ err.variant = "HidError"
    /\ err.hid = "HidApiError"
    /\ \E i \in 1..Len(err.message) - 1 :
          err.message[i] = "device" /\ err.message[i + 1] = "disconnected"

\* C24: a failed read is reported as LostConnection exactly when the driver
\* error is an HID API error whose message contains "device disconnected", and
\* as DeviceError wrapping the original error otherwise.
C24_LostConnection ==
    last_poll.result.kind \in {"LostConnection", "DeviceError"} =>
        /\ last_poll.result.kind = "LostConnection" <=> SaysDisconnected(last_poll.err)
        /\ last_poll.result.kind = "DeviceError" => last_poll.result.err = last_poll.err
        /\ last_poll.sent = <<>>

C24_Witness ==
    /\ last_poll.result.kind = "LostConnection"
    /\ last_poll.err.message = << "timeout", "device", "disconnected" >>

\* C25: a well-formed button or component request gets exactly one response:
\* DeviceNotFound exactly when its serial number is not in the registry,
\* otherwise one of the success or failure results of its kind
RequestOutcomes(kind) ==
    CASE kind = "get_button" -> {"Button", "NoButton"}
      [] kind = "set_button" -> {"Set", "NoScreen"}
      [] kind = "clear_button" -> {"Cleared", "FailedToClear"}
      [] kind = "new_button" -> {"Created", "FailedToCreate"}
      [] kind = "new_button_from_component" ->
            {"Created", "FailedToCreate", "ComponentNotFound"}
      [] kind = "add_component" -> {"Added", "FailedToAdd"}
      [] kind = "get_component_values" -> {"Values", "FailedToGet"}
      [] kind = "add_component_value" -> {"Added", "FailedToAdd"}
      [] kind = "remove_component_value" -> {"Removed", "FailedToRemove"}
      [] kind = "set_component_value" -> {"Set", "FailedToSet"}
      [] kind = "remove_component" -> {"Removed", "FailedToRemove"}
      [] kind = "copy_button" -> {"Copied", "NoButton"}
      [] kind = "paste_button" -> {"Pasted", "FailedToPaste"}
      [] OTHER -> {}
C25_OneResponse ==
    [][(last_request' # last_request /\ last_request'.parsed) =>
         /\ Len(last_request'.responses) = 1
         /\ (last_request'.responses[1] = "DeviceNotFound")
              <=> (last_request'.serial \notin devices)
         /\ (last_request'.serial \in devices)
              => (last_request'.responses[1] \in RequestOutcomes(last_request'.kind))]_vars
C25_Witness ==
    /\ last_request.kind = "paste_button"
    /\ last_request.parsed
    /\ last_request.serial \in devices
    /\ clipboard # <<>>
    /\ last_request.responses = <<"Pasted">>

\* C26: the command step handles every batch that was pending when it started,
\* so none of them is still queued when the animation step begins
C26_DrainsPending ==
    [][(dev_pc = "cmd" /\ dev_pc' = "anim") => cmd_chan' = <<>>]_vars

\* C27: a key without a value in last_buttons (first report, or a report longer
\* than the previous one) sends one pressed edge when its new value is nonzero
\* and nothing when it is zero; after a successful read last_buttons is the
\* whole new report.
C27_AbsentKeys ==
    [][ (ReadStep /\ last_read' = "Ok") =>
          /\ last_buttons' = last_report'.buttons
          /\ key_rx_alive =>
                \A k \in Keys :
                   (k >= Len(last_buttons) /\ k < Len(last_report'.buttons)) =>
                      /\ EdgeCount(NewEdges, <<k, TRUE>>)
                            = (IF last_report'.buttons[k + 1] # 0 THEN 1 ELSE 0)
                      /\ EdgeCount(NewEdges, <<k, FALSE>>) = 0 ]_vars

\* a report of two keys follows a report of one: key 1 had no value, arrives
\* nonzero and its pressed edge is the newest in the channel
C27_Witness ==
    /\ last_read = "Ok"
    /\ last_report = Report(1, <<0, 2>>)
    /\ last_buttons = <<0, 2>>
    /\ key_chan # <<>>
    /\ key_chan[Len(key_chan)] = <<1, TRUE>>

\* C28: advance_counter at elapsed time t: when t > wakeup_time the index
\* becomes the least i whose cumulative end time exceeds t mod duration,
\* new_frame becomes true and wakeup_time becomes t + delay of frame i; when
\* t <= wakeup_time index, new_frame and wakeup_time stay as they were (the
\* animated step has cleared new_frame just before the call).
AnimStep == dev_pc = "anim" /\ dev_pc' = "sleep"
LeastEnding(frames, x) ==
    CHOOSE i \in 0..(Len(frames) - 1) :
        /\ frames[i + 1].end_time > x
        /\ \A j \in 0..(i - 1) : frames[j + 1].end_time <= x
C28_AdvanceCounter ==
    [][ AnimStep =>
          \A id \in DOMAIN animation_counters :
             LET c == animation_counters[id]
                 d == animation_counters'[id]
                 t == now - c.time
             IN  IF t > c.wakeup_time
                 THEN /\ d.index = LeastEnding(c.frames, t % c.duration)
                      /\ d.new_frame
                      /\ d.wakeup_time = t + c.frames[d.index + 1].frame.delay
                 ELSE /\ d.index = c.index
                      /\ ~d.new_frame
                      /\ d.wakeup_time = c.wakeup_time ]_vars

\* a counter past its first loop that has just advanced to its second frame
C28_Witness ==
    /\ dev_pc = "sleep"
    /\ \E id \in DOMAIN animation_counters :
          LET c == animation_counters[id]
          IN  /\ c.new_frame
              /\ c.index = 1
              /\ now - c.time > c.duration
              /\ c.wakeup_time = (now - c.time) + c.frames[2].frame.delay

\* C29: in one animated step a key of the render-map is written at most once,
\* and only if its background is an animated asset whose counter had new_frame
\* set when the step began; after the step a counter's new_frame is set only
\* if its advance fired in that step, and is clear otherwise.
WritesTo(ops, k) == Cardinality({i \in DOMAIN ops : ops[i].op = "write" /\ ops[i].key = k})
AdvanceFired(id) ==
    IF id \in DOMAIN animation_counters
    THEN now - animation_counters[id].time > animation_counters[id].wakeup_time
    ELSE now - animation_counters'[id].time > 0
C29_AnimatedWrites ==
    [][ AnimStep =>
          /\ \A i \in DOMAIN dev_ops' : dev_ops'[i].op = "write" /\ dev_ops'[i].key \in DOMAIN renderer_map
          /\ \A k \in DOMAIN renderer_map :
                /\ WritesTo(dev_ops', k) <= 1
                /\ WritesTo(dev_ops', k) = 1 =>
                      LET bg == renderer_map[k].component.background
                      IN  /\ bg[1] = "ExistingImage"
                          /\ bg[2] \in DOMAIN image_collection
                          /\ image_collection[bg[2]].kind = "animated"
                          /\ bg[2] \in DOMAIN animation_counters
                          /\ animation_counters[bg[2]].new_frame
          /\ \A id \in DOMAIN animation_counters' :
                animation_counters'[id].new_frame <=> AdvanceFired(id) ]_vars

\* C30: a counter is created only by the animated step, for an asset id that a
\* render-map entry names and that is an animated image in the asset store,
\* one per id; a counter that exists is never removed, and its frames, its
\* duration and its start time never change.
NamedInRenderMap(id) ==
    \E k \in DOMAIN renderer_map :
        renderer_map[k].component.background = <<"ExistingImage", id>>
C30_CounterLifetime ==
    [][ /\ \A id \in DOMAIN animation_counters :
              /\ id \in DOMAIN animation_counters'
              /\ animation_counters'[id].frames = animation_counters[id].frames
              /\ animation_counters'[id].duration = animation_counters[id].duration
              /\ animation_counters'[id].time = animation_counters[id].time
        /\ \A id \in DOMAIN animation_counters' \ DOMAIN animation_counters :
              /\ AnimStep
              /\ NamedInRenderMap(id)
              /\ id \in DOMAIN image_collection
              /\ image_collection[id].kind = "animated"
              /\ animation_counters'[id].time = now
              /\ Len(animation_counters'[id].frames) = Len(image_collection[id].frames) ]_vars

\* the counter made at time 0 is in its second loop after its asset was replaced
C30_Witness ==
    /\ "anim" \in DOMAIN animation_counters
    /\ animation_counters["anim"].time = 0
    /\ animation_counters["anim"].index = 0
    /\ now > animation_counters["anim"].duration
    /\ "anim" \in DOMAIN image_collection
    /\ image_collection["anim"].kind = "single"

\* C31: an entry of the decoded cache or of the encoded cache is never removed
\* and never overwritten: a hash that maps to a value maps to that value in
\* every later state.
C31_CacheEntriesKept ==
    [][ /\ \A h \in DOMAIN renderer_cache :
              h \in DOMAIN renderer_cache' /\ renderer_cache'[h] = renderer_cache[h]
        /\ \A h \in DOMAIN animation_cache :
              h \in DOMAIN animation_cache' /\ animation_cache'[h] = animation_cache[h] ]_vars

\* both caches hold an entry, and a Redraw after a change of the asset store
\* found the decoded entry of key 0 and composed nothing
C31_Witness ==
    /\ DOMAIN animation_cache # {}
    /\ DOMAIN renderer_cache # {}
    /\ last_redraw.seen
    /\ ~last_redraw.repeat
    /\ 0 \in last_redraw.written
    /\ 0 \notin last_redraw.composed

\* C32: right after a Redraw that found a current screen the render-map's keys
\* are the indices k < key_count whose button on that screen has a renderer
\* component, each entry holding that button and that component; a Redraw
\* that finds no current screen changes nothing and writes nothing.
OneRedrawStep == CmdStep /\ exec_last' = <<Redraw>>
HasRendererOn(screen, k) == k \in DOMAIN screen /\ screen[k].renderer # <<>>
C32_RenderMapMirrorsScreen ==
    [][ OneRedrawStep =>
          IF current_stack = <<>>
          THEN /\ renderer_map' = renderer_map
               /\ renderer_cache' = renderer_cache
               /\ current_images' = current_images
               /\ dev_ops' = <<>>
          ELSE LET screen == current_stack[Len(current_stack)]
               IN  /\ DOMAIN renderer_map'
                        = {k \in 0..(key_count - 1) : HasRendererOn(screen, k)}
                   /\ \A k \in DOMAIN renderer_map' :
                         /\ renderer_map'[k].button = screen[k]
                         /\ renderer_map'[k].component = screen[k].renderer[1] ]_vars

\* after a Redraw of the screen with a button beyond the last key, following a
\* screen that had a renderer on key 1: only key 0 is in the render-map
C32_Witness ==
    /\ dev_pc = "anim"
    /\ exec_last = <<Redraw>>
    /\ current_stack = <<ScreenWide>>
    /\ DOMAIN renderer_map = {0}
    /\ 1 \in last_redraw.cleared

\* C33: during Redraw the lock on the current screen is held only while the
\* button references are cloned; no composition and no device write or clear
\* happens between its acquisition and its release.
Count(t, m, what) == Cardinality({i \in 1..(m - 1) : t[i] = what})
C33_NoIoUnderScreenLock ==
    \A m \in DOMAIN last_redraw.lock :
        last_redraw.lock[m] \in {"compose", "write", "clear"}
            => Count(last_redraw.lock, m, "lock") = Count(last_redraw.lock, m, "unlock")

\* a Redraw that took the lock, composed one key and cleared the other
C33_Witness ==
    /\ last_redraw.found
    /\ last_redraw.composed = {0}
    /\ last_redraw.cleared = {1}
    /\ last_redraw.lock = <<"lock", "clone", "unlock", "compose", "write", "clear">>

\* C34: for every key the edges sent to the key channel alternate between
\* pressed and released: two edges of one key with no edge of that key
\* between them are never both pressed and never both released.
C34_EdgesAlternate ==
    \A i, j \in DOMAIN key_chan :
        ( /\ i < j
          /\ key_chan[i][1] = key_chan[j][1]
          /\ \A m \in (i + 1)..(j - 1) : key_chan[m][1] # key_chan[i][1] )
        => key_chan[i][2] # key_chan[j][2]

\* C35: every call of close(), also one the device thread makes on an Hid
\* error while SDCore::new is still running, finds the thread handles stored.
C35_HandlesStoredAtClose ==
    [][ (should_close' /\ ~should_close) => handles = "stored" ]_vars

\* C36: run_loop calls button_down or button_up only while the core is not
\* closed: no key edge is dispatched in a state where the closed flag is set.
C36_NoDispatchWhenClosed ==
    [][ DispatchStep => ~should_close ]_vars

\* C37: every device image write or black clear the device thread issues,
\* from Redraw, from the animated step or from a SetButtonImage,
\* SetButtonImageRaw or ClearButtonImage command, targets a key index below
\* key_count.
TouchesKey(o) == o.op \in {"write", "clear"}
C37_AllOpsInRange ==
    \A i \in DOMAIN dev_ops : TouchesKey(dev_ops[i]) => dev_ops[i].key < key_count

\* C37, amended: what Redraw and the animated step issue targets a key index
\* below key_count; an image or clear command is issued for exactly the key
\* index the command carries.
FromCommand(o) == TouchesKey(o) /\ o.src = "command"
KeyCommand(c) == c.cmd \in {"SetButtonImage", "SetButtonImageRaw", "ClearButtonImage"}
C37_RenderOpsInRange ==
    /\ \A i \in DOMAIN dev_ops :
          (TouchesKey(dev_ops[i]) /\ dev_ops[i].src \in {"redraw", "animation"})
              => dev_ops[i].key < key_count
    /\ dev_pc = "anim" =>
          LET issued == SelectSeq(dev_ops, FromCommand)
              asked == SelectSeq(exec_last, KeyCommand)
          IN  /\ Len(issued) = Len(asked)
              /\ \A i \in DOMAIN issued : issued[i].key = asked[i].key

\* a Redraw of the screen with a button at index key_count has written key 0
\* and cleared key 1, and issued nothing for the button beyond the last key
C37_Witness ==
    /\ dev_pc = "anim"
    /\ exec_last = <<Redraw>>
    /\ current_stack = <<ScreenWide>>
    /\ key_count \in DOMAIN ScreenWide
    /\ Len(dev_ops) = key_count
    /\ dev_ops[1].key = 0 /\ dev_ops[1].op = "write"
    /\ dev_ops[2].key = 1 /\ dev_ops[2].op = "clear"
\* C38: a key that Redraw recorded with an animated background (at least one
\* frame, positive total duration) is eventually written by the animated step,
\* unless a later Redraw drops the key or the runtime is closed; the loop is
\* scheduled fairly and the clock has room left to advance.
MaxDelay == CHOOSE d \in Delays : \A e \in Delays : e <= d
Horizon == MaxDelay + 2 * TickMax
RecordedAnimated(k) ==
    /\ k \in DOMAIN renderer_map
    /\ IsAnimatedBg(renderer_map[k].component, image_collection)
AnimWrites(k) ==
    /\ dev_pc = "sleep"
    /\ \E i \in DOMAIN dev_ops :
          dev_ops[i].op = "write" /\ dev_ops[i].key = k /\ dev_ops[i].src = "animation"
SlotType(kind) ==
    CASE kind \in {"ButtonDown", "ButtonUp"} -> "Button"
      [] kind \in {"EncoderDown", "EncoderUp", "EncoderTwist"} -> "EndlessKnob"
      [] OTHER -> "XYPanel"
C39_IdsMatchLayout ==
    OneUpdate =>
        LET u == last_poll.events[1]
        IN  /\ last_poll.sent # <<>>
            /\ \A i \in DOMAIN last_poll.sent :
                  LET id == last_poll.sent[i].input
                  IN  /\ id + 1 \in DOMAIN plus
                      /\ plus[id + 1].ty = SlotType(u.kind)
                      /\ SlotType(u.kind) = "XYPanel" => id = 8
                      /\ SlotType(u.kind) = "EndlessKnob" => id = u.input + 9
                      /\ SlotType(u.kind) = "Button" => id = u.input

C39_Witness ==
    /\ last_poll.events = << EncoderDown(KindPlus.encoder_count - 1) >>
    /\ last_poll.sent[1].input = Len(plus) - 1
    /\ plus[Len(plus)].ty = "EndlessKnob"
    /\ plus[9].ty = "XYPanel"

\* C40 as stated: the clipboard is empty at the start, is only ever changed by
\* a CopyButton that answered Copied, which leaves the copied button in it, so
\* it never returns to empty and a failed CopyButton leaves it as it was;
\* ClipboardStatus answers Full exactly when it holds a button; and every
\* PasteButton that finds it empty answers FailedToPaste and calls no core method.
RequestStep == last_request' # last_request
ClipboardKept ==
    /\ clipboard # <<>> => clipboard' # <<>>
    /\ clipboard' # clipboard =>
          /\ last_request'.kind = "copy_button"
          /\ last_request'.responses = <<"Copied">>
    /\ (RequestStep /\ last_request'.kind = "copy_button") =>
          IF last_request'.responses = <<"Copied">>
          THEN clipboard' = << CopiedButton(last_request'.serial, last_request'.key) >>
          ELSE clipboard' = clipboard
    /\ (RequestStep /\ last_request'.kind = "clipboard_status" /\ last_request'.parsed) =>
          last_request'.responses = << IF clipboard # <<>> THEN "Full" ELSE "Empty" >>
EmptyPaste ==
    /\ RequestStep
    /\ last_request'.kind = "paste_button"
    /\ last_request'.parsed
    /\ clipboard = <<>>
C40_EmptyPasteFails ==
    /\ clipboard = <<>>
    /\ [][ /\ ClipboardKept
           /\ EmptyPaste =>
                 /\ last_request'.responses = <<"FailedToPaste">>
                 /\ last_request'.calls = <<>>
                 /\ clipboard' = clipboard ]_vars

\* C40, amended: as above, but a PasteButton that finds the clipboard empty
\* answers FailedToPaste only for a connected device; for a serial number that
\* is not registered it answers DeviceNotFound. In both cases it calls no core
\* method and leaves the clipboard empty.
C40_EmptyPasteOnDevice ==
    /\ clipboard = <<>>
    /\ [][ /\ ClipboardKept
           /\ EmptyPaste =>
                 /\ last_request'.responses =
                       << IF last_request'.serial \in devices THEN "FailedToPaste"
                          ELSE "DeviceNotFound" >>
                 /\ last_request'.calls = <<>>
                 /\ clipboard' = clipboard ]_vars

C40_Witness ==
    /\ clipboard # <<>>
    /\ last_request.kind = "copy_button"
    /\ last_request.parsed
    /\ last_request.serial \in devices
    /\ last_request.responses = <<"NoButton">>
    /\ clipboard # << CopiedButton(last_request.serial, last_request.key) >>

====
